---- MODULE Spec2Model ----
(***************************************************************************)
(* A model of the COL language pipeline: the expression/statement parser   *)
(* (src/src/parser.rs), the IR lowering pass (src/src/codegen) and the     *)
(* verify-then-JIT host steps (src/src/tests/tests_helper.rs).             *)
(*                                                                         *)
(* f64 values are modelled by integers (the catalogues only use whole      *)
(* numbers), i1 values by 0/1, pointers by 0 (null), -1 (a global string)  *)
(* and k > 0 (the k-th stack slot allocated at run time).                  *)
(***************************************************************************)
EXTENDS Integers, Sequences, FiniteSets, TLC

(***************************************************************************)
(* Abstract syntax tree (src/src/parser/expr.rs, src/src/parser/stmt.rs)   *)
(***************************************************************************)

\* An expression node: variant tag, numeric payload, name payload, children.
Expr(tag, n, name, args) == [e |-> tag, n |-> n, name |-> name, args |-> args]

Number(n) == Expr("Number", n, "", <<>>)
String(s) == Expr("String", 0, s, <<>>)
True == Expr("True", 1, "", <<>>)
False == Expr("False", 0, "", <<>>)
Null == Expr("Null", 0, "", <<>>)
Identifier(name) == Expr("Identifier", 0, name, <<>>)
Call(name, args) == Expr("Call", 0, name, args)
Unary(tag, x) == Expr(tag, 0, "", <<x>>)
Binary(tag, l, r) == Expr(tag, 0, "", <<l, r>>)
Ternary(c, t, f) == Expr("Ternary", 0, "", <<c, t, f>>)
Paren(x) == Unary("Paren", x)
And(l, r) == Binary("And", l, r)
Or(l, r) == Binary("Or", l, r)
Equal(l, r) == Binary("Equal", l, r)

\* A statement node.  e: the expression slots (absent ones left out), ss: the
\* sub-statements, vars: the declarations of a Var, init/update: For's clauses.
Stmt(tag, e, ss, vars, init, update) ==
    [s |-> tag, e |-> e, ss |-> ss, vars |-> vars, init |-> init, update |-> update]

ExprStmt(x) == Stmt("Expr", <<x>>, <<>>, <<>>, <<>>, <<>>)
VarDecl(name, init) == [name |-> name, init |-> init]
Var(vars) == Stmt("Var", <<>>, <<>>, vars, <<>>, <<>>)
Var1(name, x) == Var(<<VarDecl(name, <<x>>)>>)
If(c, t) == Stmt("If", <<c>>, <<t>>, <<>>, <<>>, <<>>)
IfElse(c, t, f) == Stmt("If", <<c>>, <<t, f>>, <<>>, <<>>, <<>>)
Block(ss) == Stmt("Block", <<>>, ss, <<>>, <<>>, <<>>)
Return(e) == Stmt("Return", e, <<>>, <<>>, <<>>, <<>>)
Break == Stmt("Break", <<>>, <<>>, <<>>, <<>>, <<>>)
Continue == Stmt("Continue", <<>>, <<>>, <<>>, <<>>, <<>>)
While(c, body) == Stmt("While", <<c>>, <<body>>, <<>>, <<>>, <<>>)
DoUntil(body, c) == Stmt("DoUntil", <<c>>, <<body>>, <<>>, <<>>, <<>>)
Repeat(n, body) == Stmt("Repeat", <<n>>, <<body>>, <<>>, <<>>, <<>>)
For(init, cond, update, body) == Stmt("For", cond, <<body>>, <<>>, init, update)

\* FuncDef { name, func: Func { args, body } }
FuncDef(name, args, body) == [name |-> name, args |-> args, body |-> body]

(***************************************************************************)
(* IR values, instructions, blocks (inkwell / LLVM as used by the lowering)*)
(***************************************************************************)

\* An operand: a constant, the result of an instruction ("reg"), or a
\* function parameter ("arg").
Val(k, ty, n) == [k |-> k, ty |-> ty, n |-> n]
NoVal == Val("none", "void", 0)
Reg(id, ty) == Val("reg", ty, id)
Arg(i) == Val("arg", "f64", i)
Const(ty, n) == Val("const", ty, n)

gen_number_const(n) == Const("f64", n)
gen_bool_const(b) == Const("i1", IF b THEN 1 ELSE 0)
gen_null_const == Const("ptr", 0)
\* build_global_string_ptr: a pointer constant to a module-level string.
gen_string_const(s) == Const("ptr", 0 - 1)

Inst(op, id, ty, a, b, c, t1, t2, name, args) ==
    [op |-> op, id |-> id, ty |-> ty, a |-> a, b |-> b, c |-> c,
     t1 |-> t1, t2 |-> t2, name |-> name, args |-> args]

Terminators == {"br", "condbr", "ret", "unreachable"}
IsTerminator(i) == i.op \in Terminators

\* BasicBlock::get_terminator: the last instruction, if it is a terminator.
HasTerminator(bb) == Len(bb.insts) > 0 /\ IsTerminator(bb.insts[Len(bb.insts)])

\* An i32 result.  The payloads the programs below compute stay far inside
\* the i32 range (which is also the range of TLC's integers), so the
\* two's-complement wrap never applies.
Wrap32(n) == n

\* i1 read as a signed integer: true is -1.
Signed(ty, n) == IF ty = "i1" THEN 0 - n ELSE n

BoolInt(b) == IF b THEN 1 ELSE 0

\* The result of a side-effect-free instruction on operand payloads x, y, z
\* whose operand type is oty.  Used by the builder's constant folder and by
\* the execution engine alike.
EvalOp(op, oty, x, y, z) ==
    CASE op = "fadd" -> x + y
      [] op = "fsub" -> x - y
      [] op = "fmul" -> x * y
      [] op = "fdiv" -> IF y = 0 THEN 0 ELSE x \div y
      [] op = "frem" -> IF y = 0 THEN 0 ELSE x - y * (x \div y)
      [] op = "fneg" -> 0 - x
      [] op = "fcmp_oeq" -> BoolInt(x = y)
      [] op = "fcmp_one" -> BoolInt(x # y)
      [] op = "fcmp_olt" -> BoolInt(x < y)
      [] op = "fcmp_ole" -> BoolInt(x <= y)
      [] op = "fcmp_ogt" -> BoolInt(x > y)
      [] op = "fcmp_oge" -> BoolInt(x >= y)
      [] op = "iadd" -> IF oty = "i1" THEN (x + y) % 2 ELSE Wrap32(x + y)
      [] op = "isub" -> IF oty = "i1" THEN (x - y) % 2 ELSE Wrap32(x - y)
      [] op = "imul" -> IF oty = "i1" THEN (x * y) % 2 ELSE Wrap32(x * y)
      [] op = "ineg" -> IF oty = "i1" THEN x ELSE Wrap32(0 - x)
      [] op = "icmp_eq" -> BoolInt(x = y)
      [] op = "icmp_ne" -> BoolInt(x # y)
      [] op = "icmp_slt" -> BoolInt(Signed(oty, x) < Signed(oty, y))
      [] op = "icmp_sle" -> BoolInt(Signed(oty, x) <= Signed(oty, y))
      [] op = "icmp_sgt" -> BoolInt(Signed(oty, x) > Signed(oty, y))
      [] op = "icmp_sge" -> BoolInt(Signed(oty, x) >= Signed(oty, y))
      [] op = "and" -> IF oty = "i1" THEN x * y ELSE x
      [] op = "or" -> IF oty = "i1" THEN BoolInt(x + y > 0) ELSE x
      [] op = "xor" -> IF oty = "i1" THEN (x + y) % 2 ELSE x
      [] op = "not" -> IF oty = "i1" THEN 1 - x ELSE Wrap32(0 - x - 1)
      [] op = "select" -> IF x = 1 THEN y ELSE z
      [] op = "fptosi" -> x
      [] op = "sitofp" -> x
      [] OTHER -> 0

(***************************************************************************)
(* The IR generator's state (struct IRGenerator) and the builder           *)
(***************************************************************************)

VarNames == {"x", "y"}
FuncNames == {"f", "g"}

\* IRGenerator::new: an empty module, no insertion point, empty tables.
\* fns: the module's functions in creation order; pos: the builder's
\* insertion block; variables / variable_types / functions: the symbol
\* tables (NoVal, "none", 0 stand for an absent key); next_id numbers the
\* SSA values; err is the IRGenError raised, "ok" while there is none.
NewGenerator ==
    [fns |-> <<>>,
     current_function |-> 0,
     pos |-> [f |-> 0, b |-> 0],
     variables |-> [n \in VarNames |-> NoVal],
     variable_types |-> [n \in VarNames |-> "none"],
     functions |-> [n \in FuncNames |-> 0],
     next_id |-> 1,
     err |-> "ok"]

\* What a visit_* method returns: the generator afterwards and the value.
R(g, v) == [g |-> g, v |-> v]
Err(g, kind) == R([g EXCEPT !.err = kind], NoVal)
Failed(r) == r.g.err # "ok"

\* Module::add_function: a new function with np f64 parameters, no blocks.
add_function(g, name, np) ==
    [g EXCEPT !.fns = Append(@, [name |-> name, np |-> np, blocks |-> <<>>])]

\* Context::append_basic_block: the new block goes last in the function.
append_basic_block(g, f, name) ==
    [g EXCEPT !.fns[f].blocks = Append(@, [name |-> name, insts |-> <<>>])]

position_at_end(g, bb) == [g EXCEPT !.pos = bb]
InsertBlock(g) == g.fns[g.pos.f].blocks[g.pos.b]

\* The builder appends at the insertion point, terminated block or not.
Emit(g, i) == [g EXCEPT !.fns[g.pos.f].blocks[g.pos.b].insts = Append(@, i)]

\* An instruction that yields a value.
BuildValue(g, op, ty, a, b, c, name) ==
    R(Emit([g EXCEPT !.next_id = @ + 1],
           Inst(op, g.next_id, ty, a, b, c, 0, 0, name, <<>>)),
      Reg(g.next_id, ty))

IsConst(v) == v.k \in {"const", "none"}

\* A side-effect-free instruction: the builder's constant folder returns a
\* constant when every operand is one, and emits nothing.
BuildPure(g, op, ty, a, b, c, name) ==
    IF IsConst(a) /\ IsConst(b) /\ IsConst(c)
    THEN R(g, Const(ty, EvalOp(op, a.ty, a.n, b.n, c.n)))
    ELSE BuildValue(g, op, ty, a, b, c, name)

\* An instruction without a result.
BuildVoid(g, op, a, b, t1, t2) ==
    Emit(g, Inst(op, 0, "void", a, b, NoVal, t1, t2, "", <<>>))

build_store(g, ptr, value) == BuildVoid(g, "store", value, ptr, 0, 0)
build_unconditional_branch(g, t) == BuildVoid(g, "br", NoVal, NoVal, t, 0)
build_conditional_branch(g, c, t, f) == BuildVoid(g, "condbr", c, NoVal, t, f)
build_return(g, v) == BuildVoid(g, "ret", v, NoVal, 0, 0)
build_unreachable(g) == BuildVoid(g, "unreachable", NoVal, NoVal, 0, 0)
build_phi(g, ty, a, ba, b, bb, name) ==
    R(Emit([g EXCEPT !.next_id = @ + 1],
           Inst("phi", g.next_id, ty, a, b, NoVal, ba, bb, name, <<>>)),
      Reg(g.next_id, ty))
build_call(g, f, args) ==
    R(Emit([g EXCEPT !.next_id = @ + 1],
           Inst("call", g.next_id, "f64", NoVal, NoVal, NoVal, f, 0, "call", args)),
      Reg(g.next_id, "f64"))

\* Rust's `?` on an IRGenResult: an error ends the method at once, otherwise
\* the method goes on, K, with the result.
Then(r, K(_)) == IF Failed(r) THEN r ELSE K(r)

\* `let v = ...;` followed by the rest of the method, K.
Let(v, K(_)) == K(v)

\* append_basic_block on the current function: the generator afterwards and
\* the new block.
NewBlock(g, name) ==
    R(append_basic_block(g, g.current_function, name),
      [f |-> g.current_function, b |-> Len(g.fns[g.current_function].blocks) + 1])

\* A stack slot for a value of type ty; the result is the slot's address.
build_alloca(g, ty, name) ==
    R(Emit([g EXCEPT !.next_id = @ + 1],
           Inst("alloca", g.next_id, ty, NoVal, NoVal, NoVal, 0, 0, name, <<>>)),
      Reg(g.next_id, "ptr"))
build_load(g, ty, ptr, name) == BuildValue(g, "load", ty, ptr, NoVal, NoVal, name)

\* ir_helpers.rs
declare_variable(g, name, ty) ==
    Let(build_alloca(g, ty, name), LAMBDA a :
    R([a.g EXCEPT !.variables[name] = a.v, !.variable_types[name] = ty], a.v))

load_variable(g, name) ==
    IF g.variables[name] = NoVal THEN Err(g, "UndefinedVariable")
    ELSE IF g.variable_types[name] = "none" THEN Err(g, "InvalidOperation")
    ELSE build_load(g, g.variable_types[name], g.variables[name], name)

store_variable(g, name, value) ==
    IF g.variables[name] = NoVal THEN Err(g, "UndefinedVariable")
    ELSE R(build_store(g, g.variables[name], value), NoVal)

convert_to_bool(g, v) ==
    CASE v.ty = "i1" -> R(g, v)
      [] v.ty = "i32" -> BuildPure(g, "icmp_ne", "i1", v, Const("i32", 0), NoVal, "tobool")
      [] v.ty = "f64" -> BuildPure(g, "fcmp_one", "i1", v, gen_number_const(0), NoVal, "tobool")
      [] v.ty = "ptr" -> BuildPure(g, "icmp_ne", "i1", v, gen_null_const, NoVal, "tobool")
      [] OTHER -> Err(g, "TypeMismatch")

BoolToDouble(g, v, name) ==
    BuildPure(g, "select", "f64", v, gen_number_const(1), gen_number_const(0), name)

convert_to_return_type(g, v) ==
    IF v.ty = "i1" THEN BoolToDouble(g, v, "bool_to_double") ELSE R(g, v)

(***************************************************************************)
(* Expression lowering (src/src/codegen/ir_generator_visit_expr.rs)        *)
(***************************************************************************)

Arithmetic == {"Add", "Sub", "Mul", "Div", "Mod"}
Comparison == {"Eq", "Ne", "Lt", "Le", "Gt", "Ge"}
Bitwise == {"BitAnd", "BitOr", "BitXor"}

FloatOpName(op) ==
    CASE op = "Add" -> "fadd" [] op = "Sub" -> "fsub" [] op = "Mul" -> "fmul"
      [] op = "Div" -> "fdiv" [] op = "Mod" -> "frem"
      [] op = "Eq" -> "fcmp_oeq" [] op = "Ne" -> "fcmp_one"
      [] op = "Lt" -> "fcmp_olt" [] op = "Le" -> "fcmp_ole"
      [] op = "Gt" -> "fcmp_ogt" [] op = "Ge" -> "fcmp_oge"

IntOpName(op) ==
    CASE op = "Add" -> "iadd" [] op = "Sub" -> "isub" [] op = "Mul" -> "imul"
      [] op = "Div" -> "sdiv" [] op = "Mod" -> "srem"
      [] op = "Eq" -> "icmp_eq" [] op = "Ne" -> "icmp_ne"
      [] op = "Lt" -> "icmp_slt" [] op = "Le" -> "icmp_sle"
      [] op = "Gt" -> "icmp_sgt" [] op = "Ge" -> "icmp_sge"
      [] op \in {"And", "BitAnd"} -> "and"
      [] op \in {"Or", "BitOr"} -> "or"
      [] op \in {"Xor", "BitXor"} -> "xor"

\* gen_binary_op, the (FloatValue, FloatValue) arm.
FloatBinaryOp(g, op, l, r) ==
    CASE op \in Arithmetic -> BuildPure(g, FloatOpName(op), "f64", l, r, NoVal, "f")
      [] op \in Comparison -> BuildPure(g, FloatOpName(op), "i1", l, r, NoVal, "f")
      [] op \in Bitwise ->
           Let(BuildPure(g, "fptosi", "i32", l, NoVal, NoVal, "f2i_l"), LAMBDA li :
           Let(BuildPure(li.g, "fptosi", "i32", r, NoVal, NoVal, "f2i_r"), LAMBDA ri :
           Let(BuildPure(ri.g, IntOpName(op), "i32", li.v, ri.v, NoVal, "ibit"), LAMBDA n :
           BuildPure(n.g, "sitofp", "f64", n.v, NoVal, NoVal, "i2f"))))
      [] OTHER -> Err(g, "InvalidOperation")

\* gen_binary_op, the integer instruction emitted for two integers.
IntBinaryOp(g, op, l, r) ==
    BuildPure(g, IntOpName(op), IF op \in Comparison THEN "i1" ELSE l.ty,
              l, r, NoVal, "i")

\* An integer promoted to f64: a select for an i1, a signed conversion else.
IntToFloat(g, v) ==
    CASE v.ty = "i1" -> BoolToDouble(g, v, "bool_to_float")
      [] v.ty = "f64" -> R(g, v)
      [] OTHER -> BuildPure(g, "sitofp", "f64", v, NoVal, NoVal, "int_to_float")

IsIntTy(ty) == ty \in {"i1", "i32"}

\* gen_binary_op, the arms that promote both operands to f64 first.
PromotedBinaryOp(g, op, l, r) ==
    Let(IntToFloat(g, l), LAMBDA lf :
    Let(IntToFloat(lf.g, r), LAMBDA rf :
    FloatBinaryOp(rf.g, op, lf.v, rf.v)))

\* A gen_binary_op whose integer arm never promotes a boolean.
UnpromotedBinaryOp(g, op, l, r) ==
    CASE l.ty = "f64" /\ r.ty = "f64" -> FloatBinaryOp(g, op, l, r)
      [] IsIntTy(l.ty) /\ IsIntTy(r.ty) -> IntBinaryOp(g, op, l, r)
      [] (IsIntTy(l.ty) /\ r.ty = "f64") \/ (l.ty = "f64" /\ IsIntTy(r.ty)) ->
           PromotedBinaryOp(g, op, l, r)
      [] OTHER -> Err(g, "TypeMismatch")

gen_binary_op(g, op, l, r) ==
    CASE l.ty = "f64" /\ r.ty = "f64" -> FloatBinaryOp(g, op, l, r)
      [] IsIntTy(l.ty) /\ IsIntTy(r.ty) ->
           IF (l.ty = "i1" \/ r.ty = "i1") /\ op \in Arithmetic
           THEN PromotedBinaryOp(g, op, l, r)
           ELSE IntBinaryOp(g, op, l, r)
      [] (IsIntTy(l.ty) /\ r.ty = "f64") \/ (l.ty = "f64" /\ IsIntTy(r.ty)) ->
           PromotedBinaryOp(g, op, l, r)
      [] OTHER -> Err(g, "TypeMismatch")

\* The BinaryOp each two-operand Expr variant is lowered with.
BinaryOpOf(tag) ==
    CASE tag = "Addition" -> "Add" [] tag = "Subtraction" -> "Sub"
      [] tag = "Multiplication" -> "Mul" [] tag = "Division" -> "Div"
      [] tag = "Percent" -> "Mod"
      [] tag = "EqualEqual" -> "Eq" [] tag = "NotEqual" -> "Ne"
      [] tag = "Less" -> "Lt" [] tag = "LessEqual" -> "Le"
      [] tag = "Greater" -> "Gt" [] tag = "GreaterEqual" -> "Ge"
      [] tag = "BitAnd" -> "BitAnd" [] tag = "BitOr" -> "BitOr"
      [] tag = "BitXor" -> "BitXor" [] tag = "Xor" -> "Xor"
      [] tag = "PlusEqual" -> "Add" [] tag = "MinusEqual" -> "Sub"
      [] tag = "StarEqual" -> "Mul" [] tag = "SlashEqual" -> "Div"
      [] tag = "PercentEqual" -> "Mod"
      [] tag \in {"PreIncrement", "PostIncrement"} -> "Add"
      [] tag \in {"PreDecrement", "PostDecrement"} -> "Sub"

PlainBinary == {"Addition", "Subtraction", "Multiplication", "Division", "Percent",
                "EqualEqual", "NotEqual", "Less", "LessEqual", "Greater",
                "GreaterEqual", "BitAnd", "BitOr", "BitXor", "Xor"}
CompoundAssign == {"PlusEqual", "MinusEqual", "StarEqual", "SlashEqual", "PercentEqual"}
IncDec == {"PreIncrement", "PostIncrement", "PreDecrement", "PostDecrement"}

\* get_function: the function last declared under the name, 0 if none.
get_function(g, name) == g.functions[name]

RECURSIVE visit_expr_impl(_, _)
RECURSIVE VisitArgs(_, _, _, _)

\* Expr::Call's argument loop: left to right, stopping at the first error.
\* The result's v is the list of argument values.
VisitArgs(g, args, i, acc) ==
    IF i > Len(args) THEN R(g, acc)
    ELSE Then(visit_expr_impl(g, args[i]), LAMBDA a :
         VisitArgs(a.g, args, i + 1, Append(acc, a.v)))

\* && without the short circuit: both operands are lowered into the current
\* block and their booleans and-ed.
EagerLogicalAnd(g, lhs, rhs) ==
    Then(visit_expr_impl(g, lhs), LAMBDA l :
    Then(convert_to_bool(l.g, l.v), LAMBDA lhs_bool :
    Then(visit_expr_impl(lhs_bool.g, rhs), LAMBDA r :
    Then(convert_to_bool(r.g, r.v), LAMBDA rhs_bool :
    BuildPure(rhs_bool.g, "and", "i1", lhs_bool.v, rhs_bool.v, NoVal,
              "and_result")))))

generate_logical_and(g, lhs, rhs) ==
    Then(visit_expr_impl(g, lhs), LAMBDA l :
    Then(convert_to_bool(l.g, l.v), LAMBDA lhs_bool :
    Let(NewBlock(lhs_bool.g, "and_rhs"), LAMBDA rhs_block :
    Let(NewBlock(rhs_block.g, "and_merge"), LAMBDA merge_block :
    Let(build_conditional_branch(merge_block.g, lhs_bool.v,
                                 rhs_block.v.b, merge_block.v.b), LAMBDA g1 :
    Then(visit_expr_impl(position_at_end(g1, rhs_block.v), rhs), LAMBDA r :
    Then(convert_to_bool(r.g, r.v), LAMBDA rhs_bool :
    Let(build_unconditional_branch(rhs_bool.g, merge_block.v.b), LAMBDA g2 :
    \* lhs_block = g1.pos, rhs_end_block = g2.pos
    build_phi(position_at_end(g2, merge_block.v), "i1",
              gen_bool_const(FALSE), g1.pos.b, rhs_bool.v, g2.pos.b,
              "and_result")))))))))

generate_logical_or(g, lhs, rhs) ==
    Then(visit_expr_impl(g, lhs), LAMBDA l :
    Then(convert_to_bool(l.g, l.v), LAMBDA lhs_bool :
    Let(NewBlock(lhs_bool.g, "or_rhs"), LAMBDA rhs_block :
    Let(NewBlock(rhs_block.g, "or_merge"), LAMBDA merge_block :
    Let(build_conditional_branch(merge_block.g, lhs_bool.v,
                                 merge_block.v.b, rhs_block.v.b), LAMBDA g1 :
    Then(visit_expr_impl(position_at_end(g1, rhs_block.v), rhs), LAMBDA r :
    Then(convert_to_bool(r.g, r.v), LAMBDA rhs_bool :
    Let(build_unconditional_branch(rhs_bool.g, merge_block.v.b), LAMBDA g2 :
    build_phi(position_at_end(g2, merge_block.v), "i1",
              gen_bool_const(TRUE), g1.pos.b, rhs_bool.v, g2.pos.b,
              "or_result")))))))))

generate_ternary(g, cond, then_expr, else_expr) ==
    Then(visit_expr_impl(g, cond), LAMBDA c :
    Let(NewBlock(c.g, "ternary_then"), LAMBDA then_block :
    Let(NewBlock(then_block.g, "ternary_else"), LAMBDA else_block :
    Let(NewBlock(else_block.g, "ternary_merge"), LAMBDA merge_block :
    Then(convert_to_bool(merge_block.g, c.v), LAMBDA cond_i1 :
    Let(build_conditional_branch(cond_i1.g, cond_i1.v,
                                 then_block.v.b, else_block.v.b), LAMBDA g1 :
    Then(visit_expr_impl(position_at_end(g1, then_block.v), then_expr), LAMBDA t :
    Let(build_unconditional_branch(t.g, merge_block.v.b), LAMBDA g2 :
    Then(visit_expr_impl(position_at_end(g2, else_block.v), else_expr), LAMBDA f :
    Let(build_unconditional_branch(f.g, merge_block.v.b), LAMBDA g3 :
    \* then_end_block = g2.pos, else_end_block = g3.pos
    IF t.v.ty = f.v.ty
    THEN build_phi(position_at_end(g3, merge_block.v), t.v.ty,
                   t.v, g2.pos.b, f.v, g3.pos.b, "ternaryphi")
    ELSE R(position_at_end(g3, merge_block.v), t.v)))))))))))

\* Expr::Equal and the compound assignments, after the target was found to
\* be an identifier.
VisitAssign(g, tag, name, rhs) ==
    IF tag = "Equal"
    THEN Then(visit_expr_impl(g, rhs), LAMBDA v :
         Then(store_variable(v.g, name, v.v), LAMBDA st :
         R(st.g, v.v)))
    ELSE Then(load_variable(g, name), LAMBDA cur :
         Then(visit_expr_impl(cur.g, rhs), LAMBDA r :
         Then(gen_binary_op(r.g, BinaryOpOf(tag), cur.v, r.v), LAMBDA new :
         Then(store_variable(new.g, name, new.v), LAMBDA st :
         R(st.g, new.v)))))

\* ++ and -- that yield the new value in the postfix forms too.
IncDecYieldsNewValue(g, tag, name) ==
    Then(load_variable(g, name), LAMBDA cur :
    Then(gen_binary_op(cur.g, BinaryOpOf(tag), cur.v, gen_number_const(1)), LAMBDA new :
    Then(store_variable(new.g, name, new.v), LAMBDA st :
    R(st.g, new.v))))

\* ++x, x++, --x, x-- on an identifier.
VisitIncDec(g, tag, name) ==
    Then(load_variable(g, name), LAMBDA cur :
    Then(gen_binary_op(cur.g, BinaryOpOf(tag), cur.v, gen_number_const(1)), LAMBDA new :
    Then(store_variable(new.g, name, new.v), LAMBDA st :
    R(st.g, IF tag \in {"PreIncrement", "PreDecrement"} THEN new.v ELSE cur.v))))

\* !e, -e, ~e applied to the operand's value v.
VisitUnary(g, tag, v) ==
    CASE tag = "Not" ->
           Then(convert_to_bool(g, v), LAMBDA b :
           BuildPure(b.g, "not", "i1", b.v, NoVal, NoVal, "not"))
      [] tag = "Negative" ->
           CASE v.ty = "f64" -> BuildPure(g, "fneg", "f64", v, NoVal, NoVal, "fneg")
             [] IsIntTy(v.ty) -> BuildPure(g, "ineg", v.ty, v, NoVal, NoVal, "ineg")
             [] OTHER -> Err(g, "TypeMismatch")
      [] tag = "BitNot" ->
           CASE IsIntTy(v.ty) -> BuildPure(g, "not", v.ty, v, NoVal, NoVal, "bitnot")
             [] v.ty = "f64" ->
                  Let(BuildPure(g, "fptosi", "i32", v, NoVal, NoVal, "f2i_bitnot"), LAMBDA i :
                  Let(BuildPure(i.g, "not", "i32", i.v, NoVal, NoVal, "bitnot"), LAMBDA n :
                  BuildPure(n.g, "sitofp", "f64", n.v, NoVal, NoVal, "i2f_bitnot")))
             [] OTHER -> Err(g, "TypeMismatch")

visit_expr_impl(g, x) ==
    CASE x.e = "Number" -> R(g, gen_number_const(x.n))
      [] x.e = "String" -> R(g, gen_string_const(x.name))
      [] x.e = "True" -> R(g, gen_bool_const(TRUE))
      [] x.e = "False" -> R(g, gen_bool_const(FALSE))
      [] x.e = "Null" -> R(g, gen_null_const)
      [] x.e = "Identifier" -> load_variable(g, x.name)
      [] x.e = "Call" ->
           IF get_function(g, x.name) = 0 THEN Err(g, "UndefinedFunction")
           ELSE Then(VisitArgs(g, x.args, 1, <<>>), LAMBDA as :
                build_call(as.g, get_function(g, x.name), as.v))
      [] x.e \in PlainBinary ->
           Then(visit_expr_impl(g, x.args[1]), LAMBDA l :
           Then(visit_expr_impl(l.g, x.args[2]), LAMBDA r :
           gen_binary_op(r.g, BinaryOpOf(x.e), l.v, r.v)))
      [] x.e = "And" -> generate_logical_and(g, x.args[1], x.args[2])
      [] x.e = "Or" -> generate_logical_or(g, x.args[1], x.args[2])
      [] x.e \in {"Equal"} \cup CompoundAssign ->
           IF x.args[1].e = "Identifier"
           THEN VisitAssign(g, x.e, x.args[1].name, x.args[2])
           ELSE Err(g, "InvalidOperation")
      [] x.e \in IncDec ->
           IF x.args[1].e = "Identifier"
           THEN VisitIncDec(g, x.e, x.args[1].name)
           ELSE Err(g, "InvalidOperation")
      [] x.e \in {"Not", "Negative", "BitNot"} ->
           Then(visit_expr_impl(g, x.args[1]), LAMBDA v :
           VisitUnary(v.g, x.e, v.v))
      [] x.e \in {"Positive", "Paren"} -> visit_expr_impl(g, x.args[1])
      [] x.e = "Ternary" -> generate_ternary(g, x.args[1], x.args[2], x.args[3])

(***************************************************************************)
(* Statement lowering (src/src/codegen/ir_generator/visit_stmt.rs)         *)
(***************************************************************************)

RECURSIVE visit_stmt_impl(_, _)
RECURSIVE VisitVars(_, _, _, _)
RECURSIVE VisitBlock(_, _, _, _)

\* An optional expression: its value, or the constant dflt when absent.
VisitOptExpr(g, opt, dflt) ==
    IF opt = <<>> THEN R(g, dflt) ELSE visit_expr_impl(g, opt[1])

\* An optional statement: lowered when present.
VisitOptStmt(g, opt, dflt) ==
    IF opt = <<>> THEN R(g, dflt) ELSE visit_stmt_impl(g, opt[1])

\* Stmt::Var's loop: each declaration gets a slot of its value's type.
VisitVars(g, vars, i, last) ==
    IF i > Len(vars) THEN R(g, last)
    ELSE Then(VisitOptExpr(g, vars[i].init, gen_number_const(0)), LAMBDA value :
         Let(declare_variable(value.g, vars[i].name, value.v.ty), LAMBDA alloca :
         VisitVars(build_store(alloca.g, alloca.v, value.v), vars, i + 1, value.v)))

\* Stmt::Block's loop: stops at the first statement found behind a terminator.
VisitBlock(g, stmts, i, last) ==
    IF i > Len(stmts) \/ HasTerminator(InsertBlock(g)) THEN R(g, last)
    ELSE Then(visit_stmt_impl(g, stmts[i]), LAMBDA r :
         VisitBlock(r.g, stmts, i + 1, r.v))

\* "Jump ... (if no terminator)": the branch the loops and If add at the end
\* of a body.
BranchIfOpen(g, target) ==
    IF HasTerminator(InsertBlock(g)) THEN g
    ELSE build_unconditional_branch(g, target)

\* Stmt::If, "Handle different flow combinations": t and f are the arms'
\* results, g the generator positioned at the merge block.
IfValue(g, t, f) ==
    CASE ~HasTerminator(InsertBlock(t.g)) /\ ~HasTerminator(InsertBlock(f.g)) ->
           IF t.v.ty = f.v.ty
           THEN build_phi(g, t.v.ty, t.v, t.g.pos.b, f.v, f.g.pos.b, "ifphi")
           ELSE R(g, t.v)
      [] ~HasTerminator(InsertBlock(t.g)) -> R(g, t.v)
      [] ~HasTerminator(InsertBlock(f.g)) -> R(g, f.v)
      [] OTHER -> R(build_unreachable(g), gen_number_const(0))

VisitIf(g, cond, then_stmt, else_stmt) ==
    Then(visit_expr_impl(g, cond), LAMBDA c :
    Let(NewBlock(c.g, "then"), LAMBDA then_block :
    Let(NewBlock(then_block.g, "else"), LAMBDA else_block :
    Let(NewBlock(else_block.g, "merge"), LAMBDA merge_block :
    Then(convert_to_bool(merge_block.g, c.v), LAMBDA cond_i1 :
    Let(build_conditional_branch(cond_i1.g, cond_i1.v,
                                 then_block.v.b, else_block.v.b), LAMBDA g1 :
    Then(visit_stmt_impl(position_at_end(g1, then_block.v), then_stmt), LAMBDA t :
    Let(BranchIfOpen(t.g, merge_block.v.b), LAMBDA g2 :
    Then(VisitOptStmt(position_at_end(g2, else_block.v), else_stmt,
                      gen_number_const(0)), LAMBDA f :
    Let(BranchIfOpen(f.g, merge_block.v.b), LAMBDA g3 :
    IfValue(position_at_end(g3, merge_block.v), t, f)))))))))))

generate_while_loop(g, cond, body) ==
    Let(NewBlock(g, "while_cond"), LAMBDA cond_block :
    Let(NewBlock(cond_block.g, "while_body"), LAMBDA body_block :
    Let(NewBlock(body_block.g, "while_exit"), LAMBDA exit_block :
    Let(build_unconditional_branch(exit_block.g, cond_block.v.b), LAMBDA g1 :
    Then(visit_expr_impl(position_at_end(g1, cond_block.v), cond), LAMBDA c :
    Then(convert_to_bool(c.g, c.v), LAMBDA cond_i1 :
    Let(build_conditional_branch(cond_i1.g, cond_i1.v,
                                 body_block.v.b, exit_block.v.b), LAMBDA g2 :
    Then(visit_stmt_impl(position_at_end(g2, body_block.v), body), LAMBDA b :
    R(position_at_end(BranchIfOpen(b.g, cond_block.v.b), exit_block.v),
      gen_number_const(0))))))))))

\* generate_do_until_loop's own coercion of the condition: loop while it is
\* false.
UntilCond(g, v) ==
    CASE v.ty = "i1" -> BuildPure(g, "not", "i1", v, NoVal, NoVal, "until_cond")
      [] v.ty = "i32" ->
           Let(BuildPure(g, "icmp_ne", "i1", v, Const("i32", 0), NoVal, "tobool"),
               LAMBDA bool_val :
           BuildPure(bool_val.g, "not", "i1", bool_val.v, NoVal, NoVal, "until_cond"))
      [] v.ty = "f64" ->
           BuildPure(g, "fcmp_oeq", "i1", v, gen_number_const(0), NoVal, "until_cond")
      [] OTHER -> Err(g, "TypeMismatch")

generate_do_until_loop(g, body, cond) ==
    Let(NewBlock(g, "do_body"), LAMBDA body_block :
    Let(NewBlock(body_block.g, "do_cond"), LAMBDA cond_block :
    Let(NewBlock(cond_block.g, "do_exit"), LAMBDA exit_block :
    Let(build_unconditional_branch(exit_block.g, body_block.v.b), LAMBDA g1 :
    Then(visit_stmt_impl(position_at_end(g1, body_block.v), body), LAMBDA b :
    Let(position_at_end(BranchIfOpen(b.g, cond_block.v.b), cond_block.v), LAMBDA g2 :
    Then(visit_expr_impl(g2, cond), LAMBDA c :
    Then(UntilCond(c.g, c.v), LAMBDA cond_i1 :
    R(position_at_end(build_conditional_branch(cond_i1.g, cond_i1.v,
                                               body_block.v.b, exit_block.v.b),
                      exit_block.v),
      gen_number_const(0))))))))))

\* generate_repeat_loop: the count as an integer.
RepeatCount(g, v) ==
    CASE IsIntTy(v.ty) -> R(g, v)
      [] v.ty = "f64" -> BuildPure(g, "fptosi", "i32", v, NoVal, NoVal, "repeat_count")
      [] OTHER -> Err(g, "TypeMismatch")

\* generate_repeat_loop: "Increment counter (if no terminator)".
RepeatIncrement(g, counter_alloca, cond_block) ==
    IF HasTerminator(InsertBlock(g)) THEN g
    ELSE Let(build_load(g, "i32", counter_alloca, "counter"), LAMBDA cur :
         Let(BuildPure(cur.g, "iadd", "i32", cur.v, Const("i32", 1), NoVal,
                       "inc_counter"), LAMBDA incremented :
         build_unconditional_branch(
             build_store(incremented.g, counter_alloca, incremented.v),
             cond_block.b)))

\* A repeat loop whose count is evaluated in the condition block, before
\* every iteration.
RepeatCountEachIteration(g, count_expr, body) ==
    Let(build_alloca(g, "i32", "repeat_counter"), LAMBDA counter_alloca :
    Let(build_store(counter_alloca.g, counter_alloca.v, Const("i32", 0)), LAMBDA g1 :
    Let(NewBlock(g1, "repeat_cond"), LAMBDA cond_block :
    Let(NewBlock(cond_block.g, "repeat_body"), LAMBDA body_block :
    Let(NewBlock(body_block.g, "repeat_exit"), LAMBDA exit_block :
    Let(position_at_end(build_unconditional_branch(exit_block.g, cond_block.v.b),
                        cond_block.v), LAMBDA g2 :
    Then(visit_expr_impl(g2, count_expr), LAMBDA count_value :
    Then(RepeatCount(count_value.g, count_value.v), LAMBDA count_int :
    Let(build_load(count_int.g, "i32", counter_alloca.v, "counter"), LAMBDA current_counter :
    Let(BuildPure(current_counter.g, "icmp_slt", "i1", current_counter.v,
                  count_int.v, NoVal, "repeat_cond"), LAMBDA cond_result :
    Let(build_conditional_branch(cond_result.g, cond_result.v,
                                 body_block.v.b, exit_block.v.b), LAMBDA g3 :
    Then(visit_stmt_impl(position_at_end(g3, body_block.v), body), LAMBDA b :
    R(position_at_end(RepeatIncrement(b.g, counter_alloca.v, cond_block.v),
                      exit_block.v),
      gen_number_const(0))))))))))))))

generate_repeat_loop(g, count_expr, body) ==
    Then(visit_expr_impl(g, count_expr), LAMBDA count_value :
    Then(RepeatCount(count_value.g, count_value.v), LAMBDA count_int :
    Let(build_alloca(count_int.g, "i32", "repeat_counter"), LAMBDA counter_alloca :
    Let(build_store(counter_alloca.g, counter_alloca.v, Const("i32", 0)), LAMBDA g1 :
    Let(NewBlock(g1, "repeat_cond"), LAMBDA cond_block :
    Let(NewBlock(cond_block.g, "repeat_body"), LAMBDA body_block :
    Let(NewBlock(body_block.g, "repeat_exit"), LAMBDA exit_block :
    Let(position_at_end(build_unconditional_branch(exit_block.g, cond_block.v.b),
                        cond_block.v), LAMBDA g2 :
    Let(build_load(g2, "i32", counter_alloca.v, "counter"), LAMBDA current_counter :
    Let(BuildPure(current_counter.g, "icmp_slt", "i1", current_counter.v,
                  count_int.v, NoVal, "repeat_cond"), LAMBDA cond_result :
    Let(build_conditional_branch(cond_result.g, cond_result.v,
                                 body_block.v.b, exit_block.v.b), LAMBDA g3 :
    Then(visit_stmt_impl(position_at_end(g3, body_block.v), body), LAMBDA b :
    R(position_at_end(RepeatIncrement(b.g, counter_alloca.v, cond_block.v),
                      exit_block.v),
      gen_number_const(0))))))))))))))

\* generate_for_loop: the loop test, constant true when there is no condition.
ForCond(g, cond) ==
    IF cond = <<>> THEN R(g, gen_bool_const(TRUE))
    ELSE Then(visit_expr_impl(g, cond[1]), LAMBDA c : convert_to_bool(c.g, c.v))

generate_for_loop(g, init, cond, update, body) ==
    Then(VisitOptStmt(g, init, NoVal), LAMBDA i :
    Let(NewBlock(i.g, "for_cond"), LAMBDA cond_block :
    Let(NewBlock(cond_block.g, "for_body"), LAMBDA body_block :
    Let(NewBlock(body_block.g, "for_update"), LAMBDA update_block :
    Let(NewBlock(update_block.g, "for_exit"), LAMBDA exit_block :
    Let(build_unconditional_branch(exit_block.g, cond_block.v.b), LAMBDA g1 :
    Then(ForCond(position_at_end(g1, cond_block.v), cond), LAMBDA continue_loop :
    Let(build_conditional_branch(continue_loop.g, continue_loop.v,
                                 body_block.v.b, exit_block.v.b), LAMBDA g2 :
    Then(visit_stmt_impl(position_at_end(g2, body_block.v), body), LAMBDA b :
    Let(position_at_end(BranchIfOpen(b.g, update_block.v.b), update_block.v),
        LAMBDA g3 :
    Then(VisitOptStmt(g3, update, NoVal), LAMBDA u :
    Let(position_at_end(build_unconditional_branch(u.g, cond_block.v.b),
                        exit_block.v), LAMBDA g4 :
    R(IF cond = <<>> THEN build_unreachable(g4) ELSE g4,
      gen_number_const(0))))))))))))))

\* Stmt::Return
VisitReturn(g, opt) ==
    Then(IF opt = <<>> THEN R(g, gen_number_const(0))
         ELSE Then(visit_expr_impl(g, opt[1]), LAMBDA expr_value :
              convert_to_return_type(expr_value.g, expr_value.v)), LAMBDA value :
    R(build_return(value.g, value.v), value.v))

visit_stmt_impl(g, s) ==
    CASE s.s = "Expr" -> visit_expr_impl(g, s.e[1])
      [] s.s = "Var" -> VisitVars(g, s.vars, 1, gen_number_const(0))
      [] s.s = "If" ->
           VisitIf(g, s.e[1], s.ss[1], IF Len(s.ss) > 1 THEN <<s.ss[2]>> ELSE <<>>)
      [] s.s = "Block" -> VisitBlock(g, s.ss, 1, gen_number_const(0))
      [] s.s = "Return" -> VisitReturn(g, s.e)
      [] s.s \in {"Break", "Continue"} -> R(build_unreachable(g), gen_number_const(0))
      [] s.s = "While" -> generate_while_loop(g, s.e[1], s.ss[1])
      [] s.s = "DoUntil" -> generate_do_until_loop(g, s.ss[1], s.e[1])
      [] s.s = "Repeat" -> generate_repeat_loop(g, s.e[1], s.ss[1])
      [] s.s = "For" -> generate_for_loop(g, s.init, s.e, s.update, s.ss[1])

(***************************************************************************)
(* Functions and the program (src/src/codegen/ir_generator.rs)             *)
(***************************************************************************)

\* self.variables.clear()
NoVariables == [n \in VarNames |-> NoVal]

\* declare_function: the function is added to the module and to the table.
declare_function(g, name, np) ==
    [add_function(g, name, np) EXCEPT !.functions[name] = Len(g.fns) + 1]

enter_function(g, f) ==
    position_at_end(append_basic_block([g EXCEPT !.current_function = f], f, "entry"),
                    [f |-> f, b |-> Len(g.fns[f].blocks) + 1])

exit_function(g) == [g EXCEPT !.current_function = 0, !.variables = NoVariables]

RECURSIVE DeclareParams(_, _, _)
\* visit_func_def's parameter loop: an f64 slot per parameter, then a store.
DeclareParams(g, args, i) ==
    IF i > Len(args) THEN g
    ELSE Let(declare_variable(g, args[i], "f64"), LAMBDA alloca :
         DeclareParams(build_store(alloca.g, alloca.v, Arg(i)), args, i + 1))

RECURSIVE VisitBody(_, _, _, _)
\* visit_func_def's statement loop: every statement is visited.
VisitBody(g, stmts, i, last) ==
    IF i > Len(stmts) THEN R(g, last)
    ELSE Then(visit_stmt_impl(g, stmts[i]), LAMBDA r :
         VisitBody(r.g, stmts, i + 1, r.v))

\* "Build return instruction if current block doesn't have terminator"
ImplicitReturn(g, last_value) ==
    IF HasTerminator(InsertBlock(g)) THEN g ELSE build_return(g, last_value)

\* A function definition whose name is not yet registered while its body is
\* lowered.
RegisteredAfterBody(g, fd) ==
    Let(declare_function(g, fd.name, Len(fd.args)), LAMBDA g1 :
    Let(DeclareParams(enter_function([g1 EXCEPT !.functions[fd.name] = 0],
                                     g1.functions[fd.name]), fd.args, 1),
        LAMBDA g2 :
    Then(VisitBody(g2, fd.body, 1, gen_number_const(0)), LAMBDA body :
    R([ImplicitReturn(body.g, body.v) EXCEPT
           !.variables = g.variables,
           !.functions = g1.functions,
           !.current_function = g.current_function],
      NoVal))))

\* saved_variables and saved_function are those of g, the generator at entry.
visit_func_def(g, fd) ==
    Let(declare_function(g, fd.name, Len(fd.args)), LAMBDA g1 :
    Let(DeclareParams(enter_function(g1, g1.functions[fd.name]), fd.args, 1),
        LAMBDA g2 :
    Then(VisitBody(g2, fd.body, 1, gen_number_const(0)), LAMBDA body :
    R([ImplicitReturn(body.g, body.v) EXCEPT
           !.variables = g.variables,
           !.current_function = g.current_function],
      NoVal))))

\* TopLevel::Function without the restore of saved_function and saved_block:
\* the builder stays where visit_func_def left it.
UnrestoredFunction(g, fd) ==
    Then(visit_func_def(g, fd), LAMBDA r : R(r.g, gen_number_const(0)))

\* visit_toplevel, TopLevel::Function arm; saved_function and saved_block are
\* those of g.
visit_toplevel_function(g, fd) ==
    Then(visit_func_def(g, fd), LAMBDA r :
    IF g.current_function # 0
    THEN R(position_at_end([r.g EXCEPT !.current_function = g.current_function],
                           g.pos),
           gen_number_const(0))
    ELSE R(r.g, gen_number_const(0)))

\* visit_toplevel, TopLevel::Statement arm.
visit_toplevel_statement(g, s) == visit_stmt_impl(g, s)

\* visit_program up to its loop: main is created and entered.
visit_program_begin(g) == enter_function(add_function(g, "main", 0), Len(g.fns) + 1)

\* visit_program after its loop: the implicit return, then exit_function.
visit_program_end(g, last_value) == exit_function(ImplicitReturn(g, last_value))

\* visit_program's loop from the i-th item on; the first error ends it.
RECURSIVE VisitToplevels(_, _, _, _)
VisitToplevels(g, items, i, last_value) ==
    IF i > Len(items) THEN R(g, last_value)
    ELSE Then(IF "body" \in DOMAIN items[i]
              THEN visit_toplevel_function(g, items[i])
              ELSE visit_toplevel_statement(g, items[i]),
              LAMBDA r : VisitToplevels(r.g, items, i + 1, r.v))

visit_program(g, items) ==
    Then(VisitToplevels(visit_program_begin(g), items, 1, gen_number_const(0)),
         LAMBDA r : R(visit_program_end(r.g, r.v), gen_number_const(0)))

(***************************************************************************)
(* Module::verify (called at src/src/tests/tests_helper.rs and             *)
(* src/src/handler/codegen_handler.rs): the rules of the LLVM verifier     *)
(* that the lowering can break.                                            *)
(***************************************************************************)

LastInst(bb) == bb.insts[Len(bb.insts)]

Successors(bb) ==
    IF ~HasTerminator(bb) THEN {}
    ELSE CASE LastInst(bb).op = "br" -> {LastInst(bb).t1}
           [] LastInst(bb).op = "condbr" -> {LastInst(bb).t1, LastInst(bb).t2}
           [] OTHER -> {}

Predecessors(fn, b) == {p \in 1..Len(fn.blocks) : b \in Successors(fn.blocks[p])}

RECURSIVE ReachAvoiding(_, _, _)
\* The blocks reachable from those in seen along edges that stay clear of avoid.
ReachAvoiding(fn, seen, avoid) ==
    LET next == seen \cup (UNION {Successors(fn.blocks[b]) : b \in seen} \ {avoid})
    IN  IF next = seen THEN seen ELSE ReachAvoiding(fn, next, avoid)

ReachableBlocks(fn) == ReachAvoiding(fn, {1}, 0)

\* Block d dominates block b: every path from the entry to b goes through d.
Dominates(fn, d, b) == d = b \/ b \notin ReachAvoiding(fn, {1} \ {d}, d)

\* Where each SSA value of the function is defined.
DefSites(fn) ==
    UNION {{[b |-> b, i |-> i, id |-> fn.blocks[b].insts[i].id] :
               i \in {j \in 1..Len(fn.blocks[b].insts) : fn.blocks[b].insts[j].id # 0}} :
           b \in 1..Len(fn.blocks)}

\* "Terminator found in the middle of a basic block" / "Basic Block does not
\* have terminator": exactly one terminator, and it is the last instruction.
BlockTerminated(bb) ==
    /\ HasTerminator(bb)
    /\ \A i \in 1..(Len(bb.insts) - 1) : ~IsTerminator(bb.insts[i])

\* "Instruction does not dominate all uses": operand v of the instruction at
\* (b, i).  A use in an unreachable block is always dominated; a definition
\* in an unreachable block dominates nothing else; a value of another
\* function has no definition here at all.
UseDominated(fn, reach, sites, v, b, i) ==
    v.k = "reg" =>
        \E d \in sites :
            /\ d.id = v.n
            /\ \/ b \notin reach
               \/ IF d.b = b THEN d.i < i
                  ELSE d.b \in reach /\ Dominates(fn, d.b, b)

\* A phi's operand is used at the end of its incoming block p.
PhiUseDominated(fn, reach, sites, v, p) ==
    v.k = "reg" =>
        \E d \in sites :
            /\ d.id = v.n
            /\ (p \notin reach \/ (d.b \in reach /\ Dominates(fn, d.b, p)))

FloatOps == {"fadd", "fsub", "fmul", "fdiv", "frem", "fcmp_oeq", "fcmp_one",
             "fcmp_olt", "fcmp_ole", "fcmp_ogt", "fcmp_oge"}
IntOps == {"iadd", "isub", "imul", "sdiv", "srem", "and", "or", "xor"}
IntCmps == {"icmp_eq", "icmp_ne", "icmp_slt", "icmp_sle", "icmp_sgt", "icmp_sge"}

\* The operand-type rules of each instruction.
OperandTypesOk(fns, fn, x) ==
    CASE x.op = "ret" -> x.a.ty = "f64"
      [] x.op = "condbr" -> x.a.ty = "i1"
      [] x.op \in FloatOps -> x.a.ty = "f64" /\ x.b.ty = "f64"
      [] x.op \in IntOps -> IsIntTy(x.a.ty) /\ x.b.ty = x.a.ty
      [] x.op \in IntCmps -> x.a.ty \in {"i1", "i32", "ptr"} /\ x.b.ty = x.a.ty
      [] x.op = "fneg" -> x.a.ty = "f64"
      [] x.op \in {"ineg", "not"} -> IsIntTy(x.a.ty)
      [] x.op = "fptosi" -> x.a.ty = "f64"
      [] x.op = "sitofp" -> IsIntTy(x.a.ty)
      [] x.op = "select" -> x.a.ty = "i1" /\ x.b.ty = x.ty /\ x.c.ty = x.ty
      [] x.op = "load" -> x.a.ty = "ptr"
      [] x.op = "store" -> x.b.ty = "ptr"
      [] x.op = "phi" -> x.a.ty = x.ty /\ x.b.ty = x.ty
      [] x.op = "call" ->
           /\ Len(x.args) = fns[x.t1].np
           /\ \A k \in 1..Len(x.args) : x.args[k].ty = "f64"
      [] OTHER -> TRUE

InstOperands(x) == {x.a, x.b, x.c} \cup {x.args[k] : k \in 1..Len(x.args)}

InstructionValid(fns, fn, reach, sites, b, i) ==
    LET x == fn.blocks[b].insts[i] IN
    /\ OperandTypesOk(fns, fn, x)
    /\ IF x.op = "phi"
       THEN /\ \A j \in 1..(i - 1) : fn.blocks[b].insts[j].op = "phi"
            /\ x.t1 # x.t2
            /\ {x.t1, x.t2} = Predecessors(fn, b)
            /\ PhiUseDominated(fn, reach, sites, x.a, x.t1)
            /\ PhiUseDominated(fn, reach, sites, x.b, x.t2)
       ELSE \A v \in InstOperands(x) : UseDominated(fn, reach, sites, v, b, i)

FunctionValid(fns, f) ==
    LET fn == fns[f]
        reach == ReachableBlocks(fn)
        sites == DefSites(fn)
    IN  \A b \in 1..Len(fn.blocks) :
            /\ BlockTerminated(fn.blocks[b])
            /\ \A i \in 1..Len(fn.blocks[b].insts) :
                   InstructionValid(fns, fn, reach, sites, b, i)

ModuleVerify(fns) == \A f \in 1..Len(fns) : FunctionValid(fns, f)

(***************************************************************************)
(* JITExecutor (src/src/codegen/jit.rs): running the compiled module       *)
(***************************************************************************)

TypeSize(ty) == CASE ty = "i1" -> 1 [] ty = "i32" -> 4 [] OTHER -> 8

\* A call frame: function, block, instruction index, the block control came
\* from (for phi), the SSA values computed so far, the actual parameters.
Frame(f, args, nids) ==
    [f |-> f, b |-> 1, i |-> 1, prev |-> 0,
     regs |-> [k \in 1..nids |-> 0], args |-> args]

\* The machine at the call of function f.  mem: the stack slots allocated so
\* far, each with its allocated type and the type and payload last stored;
\* trace: the stores executed, in order; status: "run", "done" (ret holds the
\* result), "undefined" (undefined behaviour was executed).
StartMachine(f, args, nids) ==
    [frames |-> <<Frame(f, args, nids)>>, mem |-> <<>>, trace |-> <<>>,
     status |-> "run", ret |-> 0]

OperandValue(fr, v) ==
    CASE v.k = "const" -> v.n
      [] v.k = "reg" -> fr.regs[v.n]
      [] v.k = "arg" -> fr.args[v.n]
      [] OTHER -> 0

\* One instruction of the top frame.
ExecStep(fns, st) ==
    LET top == Len(st.frames)
        fr == st.frames[top]
        x == fns[fr.f].blocks[fr.b].insts[fr.i]
        va == OperandValue(fr, x.a)
        vb == OperandValue(fr, x.b)
        vc == OperandValue(fr, x.c)
        Advance(m) == [m EXCEPT !.frames[top].i = @ + 1]
        SetReg(m, n) == Advance([m EXCEPT !.frames[top].regs[x.id] = n])
        Goto(m, t) == [m EXCEPT !.frames[top].prev = fr.b,
                                !.frames[top].b = t, !.frames[top].i = 1]
        Undefined == [st EXCEPT !.status = "undefined"]
    IN
    CASE x.op = "alloca" ->
           SetReg([st EXCEPT !.mem = Append(@, [aty |-> x.ty, ty |-> "none", n |-> 0])],
                  Len(st.mem) + 1)
      [] x.op = "store" ->
           IF vb < 1 \/ vb > Len(st.mem) THEN Undefined
           ELSE IF TypeSize(x.a.ty) > TypeSize(st.mem[vb].aty) THEN Undefined
           ELSE Advance([st EXCEPT !.mem[vb].ty = x.a.ty, !.mem[vb].n = va,
                                   !.trace = Append(@, [slot |-> vb, n |-> va])])
      [] x.op = "load" ->
           IF va < 1 \/ va > Len(st.mem) THEN Undefined
           ELSE IF st.mem[va].ty # x.ty THEN Undefined
           ELSE SetReg(st, st.mem[va].n)
      [] x.op = "phi" -> SetReg(st, IF fr.prev = x.t1 THEN va ELSE vb)
      [] x.op = "br" -> Goto(st, x.t1)
      [] x.op = "condbr" -> Goto(st, IF va = 1 THEN x.t1 ELSE x.t2)
      [] x.op = "unreachable" -> Undefined
      [] x.op = "call" ->
           [st EXCEPT !.frames = Append(@,
               Frame(x.t1, [k \in 1..Len(x.args) |-> OperandValue(fr, x.args[k])],
                     Len(fr.regs)))]
      [] x.op = "ret" ->
           IF top = 1 THEN [st EXCEPT !.status = "done", !.ret = va]
           ELSE LET caller == st.frames[top - 1]
                    call == fns[caller.f].blocks[caller.b].insts[caller.i]
                IN  [st EXCEPT !.frames =
                        [SubSeq(@, 1, top - 1) EXCEPT
                            ![top - 1].regs[call.id] = va,
                            ![top - 1].i = caller.i + 1]]
      [] OTHER -> SetReg(st, EvalOp(x.op, x.a.ty, va, vb, vc))

RECURSIVE Run(_, _, _)
\* The machine after at most fuel further instructions.
Run(fns, st, fuel) ==
    IF st.status # "run" \/ fuel = 0 THEN st
    ELSE Run(fns, ExecStep(fns, st), fuel - 1)

(***************************************************************************)
(* The parser (src/src/parser.rs), over the token stream of the lexer      *)
(* (src/src/token.rs).  Each parser takes the remaining tokens and yields  *)
(* ok, the node built and the tokens left; every combinator rewinds when   *)
(* the parser it wraps fails (or_not, repeated, choice).                   *)
(***************************************************************************)

\* A token: its kind (the Token variant), and the text or number it carries.
Tok(t) == [t |-> t, s |-> "", n |-> 0]
IdentTok(s) == [t |-> "Identifier", s |-> s, n |-> 0]
NumberTok(n) == [t |-> "Number", s |-> "", n |-> n]
StringTok(s) == [t |-> "String", s |-> s, n |-> 0]

POk(v, rest) == [ok |-> TRUE, v |-> v, rest |-> rest]
PFail == [ok |-> FALSE, v |-> Null, rest |-> <<>>]

\* a.then(b): b, K, runs on what a left, and only if a succeeded.
PThen(r, K(_)) == IF r.ok THEN K(r) ELSE PFail

\* just(tok) at the head of ts.
Just(ts, t) == ts # <<>> /\ Head(ts).t = t

\* The levels with + - tried before * / %.
AdditiveFirst(k) ==
    CASE k = 1 -> {"Plus", "Minus"}
      [] k = 2 -> {"Star", "Slash", "Percent"}
      [] k = 3 -> {"Greater", "GreaterEqual", "Less", "LessEqual"}
      [] k = 4 -> {"EqualEqual", "NotEqual"}
      [] k = 5 -> {"BitAnd"}
      [] k = 6 -> {"BitXor"}
      [] k = 7 -> {"BitOr"}
      [] k = 8 -> {"And"}
      [] k = 9 -> {"Xor"}
      [] k = 10 -> {"Or"}

\* The operator tokens of each foldl level and the Expr variant each builds.
LevelTokens(k) ==
    CASE k = 1 -> {"Star", "Slash", "Percent"}
      [] k = 2 -> {"Plus", "Minus"}
      [] k = 3 -> {"Greater", "GreaterEqual", "Less", "LessEqual"}
      [] k = 4 -> {"EqualEqual", "NotEqual"}
      [] k = 5 -> {"BitAnd"}
      [] k = 6 -> {"BitXor"}
      [] k = 7 -> {"BitOr"}
      [] k = 8 -> {"And"}
      [] k = 9 -> {"Xor"}
      [] k = 10 -> {"Or"}

BinaryTagOf(t) ==
    CASE t = "Star" -> "Multiplication" [] t = "Slash" -> "Division"
      [] t = "Plus" -> "Addition" [] t = "Minus" -> "Subtraction"
      [] OTHER -> t

AssignTokens == {"Equal", "PlusEqual", "MinusEqual", "StarEqual", "SlashEqual",
                 "PercentEqual"}

RECURSIVE expr_parser(_)
RECURSIVE CallArgs(_, _)
RECURSIVE unary(_)
RECURSIVE Level(_, _)
RECURSIVE FoldLevel(_, _)

\* expr.separated_by(Comma).allow_trailing().collect(): v is the list.
CallArgs(ts, acc) ==
    Let(expr_parser(ts), LAMBDA a :
    IF ~a.ok THEN POk(acc, ts)
    ELSE IF Just(a.rest, "Comma") THEN CallArgs(Tail(a.rest), Append(acc, a.v))
    ELSE POk(Append(acc, a.v), a.rest))

\* ident then a delimited argument list: Expr::Call
CallAtom(ts) ==
    IF Len(ts) >= 2 /\ ts[2].t = "LeftParen"
    THEN PThen(CallArgs(Tail(Tail(ts)), <<>>), LAMBDA as :
         IF Just(as.rest, "RightParen")
         THEN POk(Call(Head(ts).s, as.v), Tail(as.rest))
         ELSE PFail)
    ELSE PFail

\* expr delimited by parentheses: Expr::Paren
ParenAtom(ts) ==
    PThen(expr_parser(Tail(ts)), LAMBDA e :
    IF Just(e.rest, "RightParen") THEN POk(Paren(e.v), Tail(e.rest)) ELSE PFail)

atom(ts) ==
    IF ts = <<>> THEN PFail
    ELSE CASE Head(ts).t = "Number" -> POk(Number(Head(ts).n), Tail(ts))
           [] Head(ts).t = "String" -> POk(String(Head(ts).s), Tail(ts))
           [] Head(ts).t = "True" -> POk(True, Tail(ts))
           [] Head(ts).t = "False" -> POk(False, Tail(ts))
           [] Head(ts).t = "Null" -> POk(Null, Tail(ts))
           [] Head(ts).t = "Identifier" ->
                Let(CallAtom(ts), LAMBDA c :
                IF c.ok THEN c ELSE POk(Identifier(Head(ts).s), Tail(ts)))
           [] Head(ts).t = "LeftParen" -> ParenAtom(ts)
           [] OTHER -> PFail

PrefixTagOf(t) ==
    CASE t = "Not" -> "Not" [] t = "BitNot" -> "BitNot"
      [] t = "Plus" -> "Positive" [] t = "Minus" -> "Negative"
      [] t = "Increment" -> "PreIncrement" [] t = "Decrement" -> "PreDecrement"

\* Prefix ++ and -- taking any unary expression as operand, like ! ~ + -.
UnaryOnAnyOperand(ts) ==
    IF ts = <<>> THEN PFail
    ELSE IF Head(ts).t \in {"Not", "BitNot", "Plus", "Minus", "Increment", "Decrement"}
         THEN PThen(unary(Tail(ts)), LAMBDA e :
              POk(Unary(PrefixTagOf(Head(ts).t), e.v), e.rest))
         ELSE atom(ts)

unary(ts) ==
    IF ts = <<>> THEN PFail
    ELSE CASE Head(ts).t \in {"Not", "BitNot", "Plus", "Minus"} ->
                PThen(unary(Tail(ts)), LAMBDA e :
                POk(Unary(PrefixTagOf(Head(ts).t), e.v), e.rest))
           [] Head(ts).t \in {"Increment", "Decrement"} ->
                IF Just(Tail(ts), "Identifier")
                THEN POk(Unary(PrefixTagOf(Head(ts).t), Identifier(ts[2].s)),
                         Tail(Tail(ts)))
                ELSE PFail
           [] OTHER -> atom(ts)

postfix(ts) ==
    IF Just(ts, "Identifier") /\ Len(ts) >= 2 /\ ts[2].t \in {"Increment", "Decrement"}
    THEN POk(Unary(IF ts[2].t = "Increment" THEN "PostIncrement" ELSE "PostDecrement",
                   Identifier(Head(ts).s)),
             Tail(Tail(ts)))
    ELSE unary(ts)

\* foldl over (operator then operand).repeated(): l is the tree built so far.
FoldLevel(k, l) ==
    IF l.rest # <<>> /\ Head(l.rest).t \in LevelTokens(k)
    THEN Let(Level(k - 1, Tail(l.rest)), LAMBDA r :
         IF r.ok
         THEN FoldLevel(k, POk(Binary(BinaryTagOf(Head(l.rest).t), l.v, r.v), r.rest))
         ELSE l)
    ELSE l

\* The k-th binary level above postfix.
Level(k, ts) ==
    IF k = 0 THEN postfix(ts)
    ELSE PThen(Level(k - 1, ts), LAMBDA l : FoldLevel(k, l))

factor(ts) == Level(1, ts)
term(ts) == Level(2, ts)
comparison(ts) == Level(3, ts)
equality(ts) == Level(4, ts)
bit_and(ts) == Level(5, ts)
bit_xor(ts) == Level(6, ts)
bit_or(ts) == Level(7, ts)
logic_and(ts) == Level(8, ts)
logic_xor(ts) == Level(9, ts)
logic_or(ts) == Level(10, ts)

\* `? expr : logic_or`, the optional tail of a ternary whose condition is c.
TernaryTail(c) ==
    IF Just(c.rest, "Question")
    THEN PThen(expr_parser(Tail(c.rest)), LAMBDA t :
         IF Just(t.rest, "Colon")
         THEN PThen(logic_or(Tail(t.rest)), LAMBDA e :
              POk(Ternary(c.v, t.v, e.v), e.rest))
         ELSE PFail)
    ELSE PFail

ternary(ts) ==
    PThen(logic_or(ts), LAMBDA c :
    Let(TernaryTail(c), LAMBDA opt : IF opt.ok THEN opt ELSE c))

\* `op ternary`, the optional tail of an assignment whose left side is l.
AssignTail(l) ==
    IF l.rest # <<>> /\ Head(l.rest).t \in AssignTokens
    THEN PThen(ternary(Tail(l.rest)), LAMBDA r :
         POk(Binary(Head(l.rest).t, l.v, r.v), r.rest))
    ELSE PFail

expr_parser(ts) ==
    PThen(ternary(ts), LAMBDA l :
    Let(AssignTail(l), LAMBDA opt : IF opt.ok THEN opt ELSE l))

RECURSIVE terminator(_, _)
\* (Semicolon | Newline).repeated().at_least(1): n counts those taken.
terminator(ts, n) ==
    IF Just(ts, "Semicolon") \/ Just(ts, "Newline") THEN terminator(Tail(ts), n + 1)
    ELSE IF n >= 1 THEN POk(Null, ts) ELSE PFail

\* expr.or_not() then terminator: v is the optional statement.
expr_stmt(ts) ==
    Let(expr_parser(ts), LAMBDA e :
    IF e.ok
    THEN PThen(terminator(e.rest, 0), LAMBDA t : POk(<<ExprStmt(e.v)>>, t.rest))
    ELSE PThen(terminator(ts, 0), LAMBDA t : POk(<<>>, t.rest)))

\* just(Break) then terminator
break_stmt(ts) ==
    IF Just(ts, "Break")
    THEN PThen(terminator(Tail(ts), 0), LAMBDA t : POk(<<Break>>, t.rest))
    ELSE PFail

\* The first clause of for_stmt: choice((`var` name (= expr)?, expr, `;`));
\* v is the optional init statement.
ForInit(ts) ==
    IF Just(ts, "Var")
    THEN IF Just(Tail(ts), "Identifier")
         THEN Let(IF Len(ts) >= 3 /\ ts[3].t = "Equal"
                  THEN expr_parser(Tail(Tail(Tail(ts)))) ELSE PFail, LAMBDA e :
              IF e.ok THEN POk(<<Var1(ts[2].s, e.v)>>, e.rest)
              ELSE POk(<<Var(<<VarDecl(ts[2].s, <<>>)>>)>>, Tail(Tail(ts))))
         ELSE PFail
    ELSE Let(expr_parser(ts), LAMBDA e :
         IF e.ok THEN POk(<<ExprStmt(e.v)>>, e.rest)
         ELSE IF Just(ts, "Semicolon") THEN POk(<<>>, Tail(ts))
         ELSE PFail)

\* p.or_not(): v is the list of what p yielded, empty when p failed at ts.
OrNot(r, ts) == IF r.ok THEN POk(<<r.v>>, r.rest) ELSE POk(<<>>, ts)

\* just(tok).or_not() at the head of ts: the tokens left.
SkipOne(ts, t) == IF Just(ts, t) THEN Tail(ts) ELSE ts

RECURSIVE SkipNewlines(_)
\* just(Newline).repeated()
SkipNewlines(ts) == IF Just(ts, "Newline") THEN SkipNewlines(Tail(ts)) ELSE ts

RECURSIVE statement(_)
RECURSIVE BlockContent(_, _)

\* `for` `(` init `;`? cond? `;` update? `)` Newline* statement
for_stmt(ts) ==
    IF Just(ts, "For") /\ Just(Tail(ts), "LeftParen")
    THEN PThen(ForInit(Tail(Tail(ts))), LAMBDA init :
         Let(SkipOne(init.rest, "Semicolon"), LAMBDA r1 :
         Let(OrNot(expr_parser(r1), r1), LAMBDA cond :
         IF ~Just(cond.rest, "Semicolon") THEN PFail
         ELSE Let(expr_parser(Tail(cond.rest)), LAMBDA u :
              Let(IF u.ok THEN POk(<<ExprStmt(u.v)>>, u.rest)
                  ELSE POk(<<>>, Tail(cond.rest)), LAMBDA update :
              IF ~Just(update.rest, "RightParen") THEN PFail
              ELSE PThen(statement(SkipNewlines(Tail(update.rest))), LAMBDA body :
                   IF body.v = <<>> THEN POk(<<>>, body.rest)
                   ELSE POk(<<For(init.v, cond.v, update.v, body.v[1])>>,
                            body.rest)))))))
    ELSE PFail

\* statement.repeated(): the statements up to where the next one fails.
BlockContent(ts, acc) ==
    Let(statement(ts), LAMBDA st :
    IF st.ok THEN BlockContent(st.rest, acc \o st.v) ELSE POk(acc, ts))

\* block_content delimited by braces: Stmt::Block
block(ts) ==
    IF Just(ts, "LeftBrace")
    THEN PThen(BlockContent(Tail(ts), <<>>), LAMBDA c :
         IF Just(c.rest, "RightBrace") THEN POk(<<Block(c.v)>>, Tail(c.rest))
         ELSE PFail)
    ELSE PFail

\* The statement choice, in its order: expr_stmt, break_stmt, for_stmt, block.
\* Every other alternative starts with a keyword that the sources below do
\* not contain.
statement(ts) ==
    Let(expr_stmt(ts), LAMBDA e :
    IF e.ok THEN e
    ELSE Let(break_stmt(ts), LAMBDA b :
         IF b.ok THEN b
         ELSE Let(for_stmt(ts), LAMBDA f :
              IF f.ok THEN f ELSE block(ts))))

\* choice((function, statement)); `function` starts with the keyword.
top_level(ts) == statement(ts)

RECURSIVE ProgramBody(_, _)
\* top_level.repeated() then end().  A top_level that fails before the end
\* of the input is an error, recovered from or not, and into_result() is Err
\* whenever there is one.
ProgramBody(ts, body) ==
    IF ts = <<>> THEN POk(body, <<>>)
    ELSE PThen(top_level(ts), LAMBDA t : ProgramBody(t.rest, body \o t.v))

\* program_parser().parse(stream).into_result(): ok and Program.body, or Err.
program_parser(ts) == ProgramBody(ts, <<>>)

(***************************************************************************)
(* The sources the parser is run on: an expression statement written out   *)
(* token by token from the tree the programmer means.                      *)
(***************************************************************************)

TokenOf(tag) ==
    CASE tag = "Multiplication" -> "Star" [] tag = "Division" -> "Slash"
      [] tag = "Addition" -> "Plus" [] tag = "Subtraction" -> "Minus"
      [] tag = "Positive" -> "Plus" [] tag = "Negative" -> "Minus"
      [] tag \in {"PreIncrement", "PostIncrement"} -> "Increment"
      [] tag \in {"PreDecrement", "PostDecrement"} -> "Decrement"
      [] OTHER -> tag

RECURSIVE SourceOf(_)
RECURSIVE ArgsSourceOf(_, _)

ArgsSourceOf(args, i) ==
    IF i > Len(args) THEN <<>>
    ELSE (IF i > 1 THEN <<Tok("Comma")>> ELSE <<>>)
         \o SourceOf(args[i]) \o ArgsSourceOf(args, i + 1)

\* The tokens of expression e, with no parentheses but those of Paren nodes.
SourceOf(e) ==
    CASE e.e = "Number" -> <<NumberTok(e.n)>>
      [] e.e = "String" -> <<StringTok(e.name)>>
      [] e.e \in {"True", "False", "Null"} -> <<Tok(e.e)>>
      [] e.e = "Identifier" -> <<IdentTok(e.name)>>
      [] e.e = "Call" ->
           <<IdentTok(e.name), Tok("LeftParen")>> \o ArgsSourceOf(e.args, 1)
           \o <<Tok("RightParen")>>
      [] e.e = "Paren" ->
           <<Tok("LeftParen")>> \o SourceOf(e.args[1]) \o <<Tok("RightParen")>>
      [] e.e = "Ternary" ->
           SourceOf(e.args[1]) \o <<Tok("Question")>> \o SourceOf(e.args[2])
           \o <<Tok("Colon")>> \o SourceOf(e.args[3])
      [] e.e \in {"PostIncrement", "PostDecrement"} ->
           SourceOf(e.args[1]) \o <<Tok(TokenOf(e.e))>>
      [] Len(e.args) = 1 -> <<Tok(TokenOf(e.e))>> \o SourceOf(e.args[1])
      [] OTHER -> SourceOf(e.args[1]) \o <<Tok(TokenOf(e.e))>> \o SourceOf(e.args[2])

\* Nesting depth of the expressions written.
MaxDepth == 2

IdA == Identifier("a")
IdB == Identifier("b")

\* What stands on the left of an assignment or as a ternary's operand.
Operands ==
    {IdA, IdB, Number(1), Paren(IdA), Call("f", <<>>), Binary("Addition", IdA, Number(1))}
Simple == {IdA, Number(1)}

RECURSIVE Meant(_)
\* The expressions of nesting depth at most d: assignments whose right side,
\* and ternaries whose else-branch, is an expression one level less deep.
Meant(d) ==
    IF d = 0 THEN Operands
    ELSE Operands
         \cup {Binary(op, l, r) : op \in AssignTokens, l \in Operands, r \in Meant(d - 1)}
         \cup {Ternary(c, t, e) : c \in Simple, t \in Simple, e \in Meant(d - 1)}

\* What ++ and -- are written in front of or behind: an identifier, and what
\* is none.
IncDecOperands ==
    {IdA, Number(1), Call("f", <<>>), Paren(IdA), Unary("Negative", IdA),
     Unary("Positive", IdA), Unary("PreIncrement", IdA), Unary("PreDecrement", IdA)}

\* ++ and -- expressions as a statement, as the right side of an assignment
\* and as the operand of a binary operator.
IncDecSources ==
    LET applied == {Unary(t, o) : t \in IncDec, o \in IncDecOperands}
    IN  applied
        \cup {Equal(IdB, u) : u \in applied}
        \cup {Binary("Addition", u, Number(1)) : u \in applied}
        \cup {Binary("Multiplication", Number(1), u) : u \in applied}

\* The binary Expr variants.
BinaryTags ==
    {"Multiplication", "Division", "Percent", "Addition", "Subtraction",
     "Greater", "GreaterEqual", "Less", "LessEqual", "EqualEqual", "NotEqual",
     "BitAnd", "BitXor", "BitOr", "And", "Xor", "Or"}

\* The level of a binary operator in the precedence table, the lowest first.
PrecedenceOf(tag) ==
    CASE tag = "Or" -> 3
      [] tag = "Xor" -> 4
      [] tag = "And" -> 5
      [] tag = "BitOr" -> 6
      [] tag = "BitXor" -> 7
      [] tag = "BitAnd" -> 8
      [] tag \in {"EqualEqual", "NotEqual"} -> 9
      [] tag \in {"Less", "LessEqual", "Greater", "GreaterEqual"} -> 10
      [] tag \in {"Addition", "Subtraction"} -> 11
      [] tag \in {"Multiplication", "Division", "Percent"} -> 12

\* The tree the table implies for `a op1 b op2 1`: the higher level binds
\* tighter, equal levels associate to the left.
TreeOf(op1, op2) ==
    IF PrecedenceOf(op1) >= PrecedenceOf(op2)
    THEN Binary(op2, Binary(op1, IdA, IdB), Number(1))
    ELSE Binary(op1, IdA, Binary(op2, IdB, Number(1)))

\* `a || b && 1 ^^ a`
ThreeLogical == Or(IdA, Binary("Xor", And(IdB, Number(1)), IdA))

PrecedenceSources ==
    {TreeOf(op1, op2) : op1 \in BinaryTags, op2 \in BinaryTags} \cup {ThreeLogical}

(***************************************************************************)
(* The programs the pipeline is run on                                     *)
(***************************************************************************)

\* Top-level items per program, instructions per execution, largest actual
\* parameter of a directly executed function.
MaxTop == 3
MaxSteps == 60
MaxArg == 1

IdX == Identifier("x")
IdY == Identifier("y")

\* (y = 1) and (y = 0): operands with a side effect that a trace shows.
SetY(n) == Paren(Equal(IdY, Number(n)))

Literals == {Number(0), Number(1), True, False, Null, String("s")}

ReturnedExprs ==
    {And(IdX, SetY(1)), And(IdX, SetY(0)), Or(IdX, SetY(1)), Or(IdX, SetY(0)),
     IdX, Call("f", <<Number(1)>>)}

TopStmts ==
    {Var1("x", v) : v \in Literals}
    \cup {Var1("y", Number(0))}
    \cup {Return(<<e>>) : e \in ReturnedExprs}
    \cup {Return(<<>>), ExprStmt(Number(2)), ExprStmt(IdX),
          ExprStmt(Ternary(IdX, IdX, True)), While(IdX, Break)}
    \cup {Return(<<Unary(t, IdX)>>) : t \in IncDec}

FuncDefs ==
    {FuncDef("f", <<"x">>, <<Return(<<Number(1)>>), Return(<<Number(2)>>)>>),
     FuncDef("f", <<"x">>, <<ExprStmt(True)>>),
     FuncDef("f", <<"x">>, <<ExprStmt(IdX)>>),
     FuncDef("f", <<"x">>, <<Return(<<IdX>>)>>),
     FuncDef("f", <<"x">>, <<Var1("y", Number(0)), Return(<<And(IdX, SetY(1))>>)>>),
     FuncDef("g", <<>>, <<Return(<<>>)>>)}

(***************************************************************************)
(* The symbol table builder (parser/visitor/symbol_table_builder.rs)       *)
(* A SymbolTable is a HashMap from names to symbols: a set of entries with *)
(* at most one entry to a name.                                            *)
(***************************************************************************)
Variable == [kind |-> "Variable", parameters |-> <<>>]
Function(parameters) == [kind |-> "Function", parameters |-> parameters]
Entry(name, symbol) == [name |-> name, symbol |-> symbol]

\* Scope::new
NewScope == [table |-> {}, children |-> <<>>]

\* An add_symbol that leaves the entry of a name already in the table alone.
KeepFirstSymbol(scope, name, symbol) ==
    IF \E e \in scope.table : e.name = name THEN scope
    ELSE [scope EXCEPT !.table = @ \cup {Entry(name, symbol)}]

\* HashMap::insert: the entry of the name is replaced.
add_symbol(scope, name, symbol) ==
    [scope EXCEPT !.table = {e \in @ : e.name # name} \cup {Entry(name, symbol)}]

\* The body is visited in the current scope and no child is appended.
VisitedInCurrentScope(scope, sub) ==
    [scope EXCEPT !.table = @ \cup sub.table, !.children = @ \o sub.children]

\* self.scope.children.push(Scope::new()) and the sub-visitor's writes to
\* children.last_mut(): sub is the new scope after the sub-visitor's visits.
push_child(scope, sub) == [scope EXCEPT !.children = Append(@, sub)]

RECURSIVE stb_visit_expr(_, _)
RECURSIVE stb_visit_exprs(_, _, _)
RECURSIVE stb_visit_stmt(_, _)
RECURSIVE stb_visit_stmts(_, _, _)
RECURSIVE stb_visit_vars(_, _, _)
RECURSIVE stb_add_params(_, _, _)

Atoms == {"Number", "String", "True", "False", "Null", "Identifier"}

\* A visit_expr that records the identifiers it meets as variables.
RecordingVisitExpr(scope, x) ==
    IF x.e = "Identifier" THEN add_symbol(scope, x.name, Variable)
    ELSE IF x.e \in Atoms THEN scope
    ELSE stb_visit_exprs(scope, x.args, 1)

\* visit_expr: the sub-expressions are visited in order; nothing is recorded.
stb_visit_expr(scope, x) ==
    IF x.e \in Atoms THEN scope ELSE stb_visit_exprs(scope, x.args, 1)

stb_visit_exprs(scope, es, i) ==
    IF i > Len(es) THEN scope
    ELSE stb_visit_exprs(stb_visit_expr(scope, es[i]), es, i + 1)

\* Stmt::Var: each name is recorded, then its initialiser visited.
stb_visit_vars(scope, vs, i) ==
    IF i > Len(vs) THEN scope
    ELSE stb_visit_vars(
             stb_visit_exprs(add_symbol(scope, vs[i].name, Variable), vs[i].init, 1),
             vs, i + 1)

stb_visit_stmts(scope, ss, i) ==
    IF i > Len(ss) THEN scope
    ELSE stb_visit_stmts(stb_visit_stmt(scope, ss[i]), ss, i + 1)

\* The new scope of a for after its init, condition and update were visited.
ForClausesVisited(s) ==
    LET a == stb_visit_stmts(NewScope, s.init, 1)
        b == stb_visit_exprs(a, s.e, 1)
    IN  stb_visit_stmts(b, s.update, 1)

stb_visit_stmt(scope, s) ==
    CASE s.s = "Expr" -> stb_visit_expr(scope, s.e[1])
      [] s.s = "Var" -> stb_visit_vars(scope, s.vars, 1)
      [] s.s = "If" ->
           LET then_visited ==
                   push_child(stb_visit_expr(scope, s.e[1]),
                              stb_visit_stmt(NewScope, s.ss[1]))
           IN  IF Len(s.ss) = 2
               THEN push_child(then_visited, stb_visit_stmt(NewScope, s.ss[2]))
               ELSE then_visited
      [] s.s = "Block" -> push_child(scope, stb_visit_stmts(NewScope, s.ss, 1))
      [] s.s = "Return" -> stb_visit_exprs(scope, s.e, 1)
      [] s.s \in {"Break", "Continue"} -> scope
      [] s.s \in {"Repeat", "While"} ->
           push_child(stb_visit_expr(scope, s.e[1]),
                      stb_visit_stmt(NewScope, s.ss[1]))
      [] s.s = "DoUntil" ->
           stb_visit_expr(push_child(scope, stb_visit_stmt(NewScope, s.ss[1])),
                          s.e[1])
      [] s.s = "For" ->
           push_child(scope, stb_visit_stmt(ForClausesVisited(s), s.ss[1]))

stb_add_params(scope, args, i) ==
    IF i > Len(args) THEN scope
    ELSE stb_add_params(add_symbol(scope, args[i], Variable), args, i + 1)

\* visit_func: the parameters, then the body, in a new child scope.
stb_visit_func(scope, fd) ==
    push_child(scope,
               stb_visit_stmts(stb_add_params(NewScope, fd.args, 1), fd.body, 1))

stb_visit_func_def(scope, fd) ==
    stb_visit_func(add_symbol(scope, fd.name, Function(fd.args)), fd)

\* visit_toplevel: TopLevel::Function has a body, TopLevel::Statement none.
stb_visit_toplevel(scope, item) ==
    IF "body" \in DOMAIN item THEN stb_visit_func_def(scope, item)
    ELSE stb_visit_stmt(scope, item)

(***************************************************************************)
(* The pipeline as a state machine                                         *)
(*   gen         the IRGenerator                                           *)
(*   phase       "new", "lowering", "failed" (lowering returned an error), *)
(*               "lowered", "invalid" (verification failed), "verified",   *)
(*               "executed"                                                *)
(*   program     the top-level items visited so far, in source order       *)
(*   last_value  visit_program's local of that name                        *)
(*   entry       the function execution was started in, and its arguments  *)
(*   machine     the execution engine after the run                        *)
(*   meant       the expression the programmer wrote down                  *)
(*   source      its tokens, as handed to the parser                       *)
(*   parsed      what program_parser made of them                          *)
(*   scope       the root Scope the SymbolTableBuilder writes to           *)
(*   text        the characters of a source text handed to the lexer       *)
(*   binop       the last call of gen_binary_op: its arguments, the value  *)
(*               it returned and its error                                 *)
(*   globals     the script's global_variables, the host's set calls so    *)
(*               far and what its last col_get_global_variable got         *)
(*   host        what col_call_function has handed to the host: its        *)
(*               COLResult, the script's last_error and the out-result     *)
(***************************************************************************)
VARIABLES gen, phase, program, last_value, entry, machine, meant, source, parsed,
          scope, host, text, globals, binop

vars == <<gen, phase, program, last_value, entry, machine, meant, source, parsed,
          scope, host, text, globals, binop>>

Idle == [frames |-> <<>>, mem |-> <<>>, trace |-> <<>>, status |-> "idle", ret |-> 0]
NoEntry == [f |-> 0, args |-> <<>>]
NoBinaryOp == [op |-> "none", lhs |-> NoVal, rhs |-> NoVal, result |-> NoVal,
               err |-> "ok"]
NoCall == [code |-> "none", last_error |-> "None", result |-> "unwritten"]

\* The returns of col_call_function: with last_error set, or with the result
\* written.
\* COLVariant: the type tag (0 number, 1 boolean, 2 string, 3 null) and the
\* payload of the union.
COLVariant(value_type, value) == [value_type |-> value_type, value |-> value]
Absent == COLVariant(0 - 1, 0)
GlobalNames == {"a", "b"}
Variants == {COLVariant(0, 0), COLVariant(0, 1), COLVariant(1, 1), COLVariant(3, 0)}
\* What the host's out-variant holds before a get.
OutVariants == {COLVariant(3, 0), COLVariant(0, 1)}
NoRead == [name |-> "", code |-> "none", out |-> Absent]
NoGlobals == [global_variables |-> [n \in GlobalNames |-> Absent], calls |-> <<>>,
              read |-> NoRead]

\* A col_set_global_variable that keeps the value a name already has.
SetOnceGlobal(gv, name, value) ==
    IF gv[name] = Absent THEN [gv EXCEPT ![name] = value] ELSE gv

\* col_set_global_variable: global_variables.insert(name, value)
col_set_global_variable(gv, name, value) == [gv EXCEPT ![name] = value]

\* col_get_global_variable: what *result holds afterwards, out being what it
\* held before.
col_get_global_variable(gv, name, out) ==
    IF gv[name] # Absent THEN gv[name] ELSE [out EXCEPT !.value_type = 3]

Returned(h, code, error) == [h EXCEPT !.code = code, !.last_error = error]
Success(h) == [h EXCEPT !.code = "Success", !.result = "written"]

Init ==
    /\ gen = NewGenerator
    /\ phase = "new"
    /\ program = <<>>
    /\ last_value = gen_number_const(0)
    /\ entry = NoEntry
    /\ machine = Idle
    /\ meant = Null
    /\ source = <<>>
    /\ parsed = PFail
    /\ scope = NewScope
    /\ host = NoCall
    /\ text = <<>>
    /\ globals = NoGlobals
    /\ binop = NoBinaryOp

VisitProgramBegin ==
    /\ phase = "new"
    /\ gen' = visit_program_begin(gen)
    /\ phase' = "lowering"
    /\ UNCHANGED <<binop, globals, text, scope, host, program, last_value, entry, machine, meant, source, parsed>>

\* One turn of visit_program's loop; an error leaves the loop at once.
Visited(r, item) ==
    /\ gen' = r.g
    /\ phase' = IF Failed(r) THEN "failed" ELSE "lowering"
    /\ last_value' = IF Failed(r) THEN last_value ELSE r.v
    /\ program' = Append(program, item)
    /\ host' = IF Failed(r)
               THEN Returned(host, "ErrorCompilation", "IR generation failed")
               ELSE host
    /\ UNCHANGED <<binop, globals, text, scope, entry, machine, meant, source, parsed>>

VisitToplevelStatement(s) ==
    /\ phase = "lowering"
    /\ Len(program) < MaxTop
    /\ Visited(visit_toplevel_statement(gen, s), s)

VisitToplevelFunction(fd) ==
    /\ phase = "lowering"
    /\ Len(program) < MaxTop
    /\ Visited(visit_toplevel_function(gen, fd), fd)

VisitProgramEnd ==
    /\ phase = "lowering"
    /\ gen' = visit_program_end(gen, last_value)
    /\ phase' = "lowered"
    /\ UNCHANGED <<binop, globals, text, scope, host, program, last_value, entry, machine, meant, source, parsed>>

Verify ==
    /\ phase = "lowered"
    /\ phase' = IF ModuleVerify(gen.fns) THEN "verified" ELSE "invalid"
    /\ host' = IF ModuleVerify(gen.fns) THEN host
               ELSE Returned(host, "ErrorCompilation", "Module verification failed")
    /\ UNCHANGED <<binop, globals, text, scope, gen, program, last_value, entry, machine, meant, source, parsed>>

\* What a run that executed undefined behaviour may hand back.
UndefinedResults == {0, 1}

\* The run of function f on args, to its end or to MaxSteps instructions.
Executed(f, args) ==
    LET m == Run(gen.fns, StartMachine(f, args, gen.next_id), MaxSteps)
    IN  /\ phase' = "executed"
        /\ entry' = [f |-> f, args |-> args]
        /\ IF m.status = "undefined"
           THEN \E r \in UndefinedResults : machine' = [m EXCEPT !.ret = r]
           ELSE machine' = m
        /\ host' = Success(host)
        /\ UNCHANGED <<binop, globals, text, scope, gen, program, last_value, meant, source, parsed>>

\* ExecutionEngine::get_function: the first function of that name.
FunctionNamed(name) ==
    {f \in 1..Len(gen.fns) :
        /\ gen.fns[f].name = name
        /\ \A k \in 1..(f - 1) : gen.fns[k].name # name}

\* A pipeline that goes on to the execution without the verification.
ExecuteUnverified ==
    /\ phase \in {"lowered", "verified"}
    /\ \E f \in FunctionNamed("main") : Executed(f, <<>>)

ExecuteMain ==
    /\ phase = "verified"
    /\ \E f \in FunctionNamed("main") : Executed(f, <<>>)

\* execute_function's Err: the engine has no function of that name.
NoSuchFunction ==
    /\ phase' = "no_function"
    /\ host' = Returned(host, "ErrorExecution", "Function execution failed")
    /\ UNCHANGED <<binop, globals, text, scope, gen, program, last_value, entry, machine, meant, source,
                   parsed>>

ExecuteFunction(name) ==
    /\ phase = "verified"
    /\ IF FunctionNamed(name) = {} THEN NoSuchFunction
       ELSE \E f \in FunctionNamed(name) :
                \E args \in [1..gen.fns[f].np -> 0..MaxArg] : Executed(f, args)

Next ==
    \/ VisitProgramBegin
    \/ \E s \in TopStmts : VisitToplevelStatement(s)
    \/ \E fd \in FuncDefs : VisitToplevelFunction(fd)
    \/ VisitProgramEnd
    \/ Verify
    \/ ExecuteMain
    \/ \E name \in FuncNames : ExecuteFunction(name)

Spec == Init /\ [][Next]_vars

(***************************************************************************)
(* The pipeline on programs that do arithmetic on booleans and numbers,    *)
(* as comprehensive_test.rs runs them                                      *)
(***************************************************************************)
ArithmeticTags == {"Addition", "Subtraction", "Multiplication", "Division", "Percent"}
ArithOperands == {True, False, Number(0), Number(1)}
Booleans == {True, False}

\* x + y + x and x + y + true
SumOfThree(z) == Binary("Addition", Binary("Addition", IdX, IdY), z)

ArithStmts ==
    {Var1("x", v) : v \in ArithOperands} \cup {Var1("y", v) : v \in ArithOperands}
    \cup {Return(<<Binary(t, IdX, IdY)>>) : t \in ArithmeticTags}
    \cup {Return(<<SumOfThree(z)>>) : z \in {IdX, True}}
    \cup {Return(<<Binary(t, l, r)>>) :
              t \in {"Addition", "Division"}, l \in Booleans, r \in Booleans}

NextArith ==
    \/ VisitProgramBegin
    \/ \E s \in ArithStmts : VisitToplevelStatement(s)
    \/ VisitProgramEnd
    \/ Verify
    \/ ExecuteMain

SpecArith == Init /\ [][NextArith]_vars

(***************************************************************************)
(* The parser run on its own, as parse_ok / parse_err of                   *)
(* src/src/parser/test.rs run it                                           *)
(***************************************************************************)

\* The statement `e;` is written and lexed.
WriteSource(e) ==
    /\ phase = "new"
    /\ meant' = e
    /\ source' = SourceOf(e) \o <<Tok("Semicolon")>>
    /\ phase' = "lexed"
    /\ UNCHANGED <<binop, globals, text, scope, host, gen, program, last_value, entry, machine, parsed>>

Parse ==
    /\ phase = "lexed"
    /\ parsed' = program_parser(source)
    /\ phase' = "parsed"
    /\ UNCHANGED <<binop, globals, text, scope, host, gen, program, last_value, entry, machine, meant, source>>

NextParse ==
    \/ \E e \in Meant(MaxDepth) \cup IncDecSources \cup PrecedenceSources :
           WriteSource(e)
    \/ Parse

SpecParse == Init /\ [][NextParse]_vars

(***************************************************************************)
(* The parser run on for statements, as for_stmt_variants of               *)
(* src/src/parser/test.rs runs it                                          *)
(***************************************************************************)

RECURSIVE StmtSourceOf(_)
RECURSIVE StmtsSourceOf(_, _)

StmtsSourceOf(ss, i) ==
    IF i > Len(ss) THEN <<>> ELSE StmtSourceOf(ss[i]) \o StmtsSourceOf(ss, i + 1)

\* The init clause of a for: `var a`, `var a = e` or an expression.
InitSourceOf(init) ==
    IF init = <<>> THEN <<>>
    ELSE IF init[1].s = "Var"
    THEN <<Tok("Var"), IdentTok(init[1].vars[1].name)>>
         \o (IF init[1].vars[1].init = <<>> THEN <<>>
             ELSE <<Tok("Equal")>> \o SourceOf(init[1].vars[1].init[1]))
    ELSE SourceOf(init[1].e[1])

\* The tokens of statement s: `e;`, `break;`, `{ ... }` or
\* `for (init; cond; update) body`, an absent clause written as nothing.
StmtSourceOf(s) ==
    CASE s.s = "Expr" -> SourceOf(s.e[1]) \o <<Tok("Semicolon")>>
      [] s.s = "Break" -> <<Tok("Break"), Tok("Semicolon")>>
      [] s.s = "Block" ->
           <<Tok("LeftBrace")>> \o StmtsSourceOf(s.ss, 1) \o <<Tok("RightBrace")>>
      [] s.s = "For" ->
           <<Tok("For"), Tok("LeftParen")>> \o InitSourceOf(s.init)
           \o <<Tok("Semicolon")>>
           \o (IF s.e = <<>> THEN <<>> ELSE SourceOf(s.e[1]))
           \o <<Tok("Semicolon")>>
           \o (IF s.update = <<>> THEN <<>> ELSE SourceOf(s.update[1].e[1]))
           \o <<Tok("RightParen")>> \o StmtSourceOf(s.ss[1])

\* The clauses and bodies the for statements are written with; <<>> is the
\* absent clause.
ForInits ==
    {<<>>, <<ExprStmt(Equal(IdA, Number(1)))>>, <<Var1("a", Number(1))>>,
     <<Var(<<VarDecl("a", <<>>)>>)>>}
ForConds == {<<>>, <<Binary("Less", IdA, Number(1))>>, <<IdA>>}
ForUpdates ==
    {<<>>, <<ExprStmt(Unary("PostIncrement", IdA))>>,
     <<ExprStmt(Binary("PlusEqual", IdA, Number(1)))>>}
ForBodies == {Break, ExprStmt(IdB), Block(<<>>), Block(<<Break>>)}

ForSources ==
    {For(i, c, u, b) : i \in ForInits, c \in ForConds, u \in ForUpdates,
                       b \in ForBodies}

\* The for statement s is written and lexed.
WriteStatement(s) ==
    /\ phase = "new"
    /\ meant' = s
    /\ source' = StmtSourceOf(s)
    /\ phase' = "lexed"
    /\ UNCHANGED <<binop, globals, text, scope, host, gen, program, last_value, entry, machine, parsed>>

NextStmt ==
    \/ \E s \in ForSources : WriteStatement(s)
    \/ Parse

SpecStmt == Init /\ [][NextStmt]_vars

(***************************************************************************)
(* The symbol table builder run on its own, as the tests of                *)
(* symbol_table_builder_tests.rs run it; program holds the top-level items *)
(* visit_program's loop has visited                                        *)
(***************************************************************************)
MaxItems == 2

ScopeCond == Binary("Less", IdA, Number(1))
DeclX == Var1("x", Number(0))
DeclY == Var1("y", IdA)
DeclF == Var(<<VarDecl("f", <<>>)>>)
\* a = f(b): an assignment target, a call target and an identifier use.
UseStmt == ExprStmt(Equal(IdA, Call("f", <<IdB>>)))
DeclBlock == Block(<<DeclX, DeclY>>)

ScopeBodies == {DeclX, UseStmt, Block(<<>>), DeclBlock}

ScopeOpeners(b) ==
    {While(ScopeCond, b), Repeat(Number(2), b), DoUntil(b, ScopeCond),
     For(<<>>, <<>>, <<>>, b),
     For(<<Var1("y", Number(0))>>, <<ScopeCond>>,
         <<ExprStmt(Unary("PostIncrement", IdY))>>, b),
     If(ScopeCond, b), IfElse(ScopeCond, b, Block(<<DeclY>>))}

\* The nesting of test_complex_mixed_nesting.
MixedNesting ==
    IfElse(True,
           Block(<<For(<<Var1("y", Number(0))>>, <<ScopeCond>>,
                       <<ExprStmt(Unary("PostIncrement", IdY))>>,
                       Block(<<DeclX,
                               While(ScopeCond,
                                     Block(<<IfElse(ScopeCond,
                                                    Block(<<DeclX>>),
                                                    Block(<<Repeat(Number(2),
                                                        Block(<<DeclY,
                                                                DoUntil(DeclBlock, ScopeCond)>>))>>)),
                                             UseStmt>>))>>))>>),
           Block(<<DeclY>>))

ScopeStmts ==
    ScopeBodies \cup UNION {ScopeOpeners(b) : b \in ScopeBodies}
    \cup {DeclF, Var(<<VarDecl("x", <<>>), VarDecl("x", <<IdB>>)>>), MixedNesting}

ScopeFuncs ==
    {FuncDef("f", <<"x">>, <<DeclY, While(ScopeCond, DeclBlock)>>),
     FuncDef("f", <<>>, <<UseStmt>>),
     FuncDef("g", <<"x", "x">>, <<DeclX>>)}

\* One turn of visit_program's loop.
AnalyzeToplevel(item) ==
    /\ phase \in {"new", "analyzing"}
    /\ Len(program) < MaxItems
    /\ scope' = stb_visit_toplevel(scope, item)
    /\ program' = Append(program, item)
    /\ phase' = "analyzing"
    /\ UNCHANGED <<binop, globals, text, host, gen, last_value, entry, machine, meant, source, parsed>>

NextScope ==
    \/ \E s \in ScopeStmts : AnalyzeToplevel(s)
    \/ \E fd \in ScopeFuncs : AnalyzeToplevel(fd)

SpecScope == Init /\ [][NextScope]_vars

(***************************************************************************)
(* The lexer (token.rs) on texts over a small alphabet.  logos yields at   *)
(* each position the longest match of the skip patterns and of the token   *)
(* patterns; over this alphabet the tokens are Slash, Star, Number and     *)
(* Newline.                                                                *)
(***************************************************************************)
MaxText == 6

Chars == {"/", "*", "1", " ", "\n"}

\* The index after the longest run of c that starts at i.
RECURSIVE RunEnd(_, _, _)
RunEnd(t, i, c) ==
    IF i <= Len(t) /\ t[i] = c THEN RunEnd(t, i + 1, c) ELSE i

\* //[^\n]* : the index of the next newline, or the one after the text's end.
RECURSIVE LineCommentEnd(_, _)
LineCommentEnd(t, i) ==
    IF i <= Len(t) /\ t[i] # "\n" THEN LineCommentEnd(t, i + 1) ELSE i

\* /\*([^*]|\*[^/])*\*/ from index p of the body on: the index after the
\* closing */, or 0 when the pattern does not match.  A `*` of the body is
\* followed by `/`, which ends the match, or it is consumed together with the
\* character after it.
RECURSIVE BlockCommentEnd(_, _)
BlockCommentEnd(t, p) ==
    IF p > Len(t) THEN 0
    ELSE IF t[p] # "*" THEN BlockCommentEnd(t, p + 1)
    ELSE IF p = Len(t) THEN 0
    ELSE IF t[p + 1] = "/" THEN p + 2
    ELSE BlockCommentEnd(t, p + 2)

\* The Number that a run of k digits 1 is.
RECURSIVE Ones(_)
Ones(k) == IF k = 0 THEN 0 ELSE 10 * Ones(k - 1) + 1

\* Token::lexer(t), from index i on.
RECURSIVE lexer(_, _)
lexer(t, i) ==
    IF i > Len(t) THEN <<>>
    ELSE CASE t[i] = " " -> lexer(t, RunEnd(t, i, " "))
           [] t[i] = "\n" -> <<Tok("Newline")>> \o lexer(t, i + 1)
           [] t[i] = "1" ->
                <<NumberTok(Ones(RunEnd(t, i, "1") - i))>> \o lexer(t, RunEnd(t, i, "1"))
           [] t[i] = "*" -> <<Tok("Star")>> \o lexer(t, i + 1)
           [] t[i] = "/" ->
                IF i < Len(t) /\ t[i + 1] = "/" THEN lexer(t, LineCommentEnd(t, i))
                ELSE IF i < Len(t) /\ t[i + 1] = "*" /\ BlockCommentEnd(t, i + 2) # 0
                THEN lexer(t, BlockCommentEnd(t, i + 2))
                ELSE <<Tok("Slash")>> \o lexer(t, i + 1)

Texts == UNION {[1..n -> Chars] : n \in 0..MaxText}

WriteText(t) ==
    /\ phase = "new"
    /\ text' = t
    /\ phase' = "written"
    /\ UNCHANGED <<binop, globals, scope, host, gen, program, last_value, entry, machine, meant,
                   source, parsed>>

\* lex_with_output
Tokenize ==
    /\ phase = "written"
    /\ source' = lexer(text, 1)
    /\ phase' = "tokenized"
    /\ UNCHANGED <<binop, globals, text, scope, host, gen, program, last_value, entry, machine,
                   meant, parsed>>

NextLex ==
    \/ \E t \in Texts : WriteText(t)
    \/ Tokenize

SpecLex == Init /\ [][NextLex]_vars

(***************************************************************************)
(* gen_binary_op applied to operands of every type, constants and          *)
(* instruction results, with the builder positioned in main                *)
(***************************************************************************)
ValueTypes == {"f64", "i1", "i32", "ptr"}
OperandValues == {Const(ty, 1) : ty \in ValueTypes} \cup {Reg(1, ty) : ty \in ValueTypes}
BinaryOps == Arithmetic \cup Comparison \cup Bitwise \cup {"And", "Or", "Xor"}

GenBinaryOp(op, lhs, rhs) ==
    /\ binop = NoBinaryOp
    /\ LET r == gen_binary_op(visit_program_begin(NewGenerator), op, lhs, rhs)
       IN  binop' = [op |-> op, lhs |-> lhs, rhs |-> rhs, result |-> r.v,
                     err |-> r.g.err]
    /\ UNCHANGED <<gen, phase, program, last_value, entry, machine, meant, source,
                   parsed, scope, host, text, globals>>

NextBinaryOp ==
    \E op \in BinaryOps : \E lhs \in OperandValues : \E rhs \in OperandValues :
        GenBinaryOp(op, lhs, rhs)

SpecBinaryOp == Init /\ [][NextBinaryOp]_vars

(***************************************************************************)
(* The pipeline run on whole programs, as compile_and_execute of           *)
(* tests_helper.rs runs it: visit_program, verify, execute_main            *)
(***************************************************************************)
Return1 == Return(<<Number(1)>>)
Return2 == Return(<<Number(2)>>)

\* The places where a condition stands.
CondPositions == {"if", "while", "for", "do_until", "ternary", "and_left",
                  "and_right", "or_left", "or_right"}

\* A program that tells how the condition c in that position was coerced.
CondProgram(pos, c) ==
    CASE pos = "if" -> <<If(c, Return1), Return2>>
      [] pos = "while" -> <<While(c, Return1), Return2>>
      [] pos = "for" -> <<For(<<>>, <<c>>, <<>>, Return1), Return2>>
      [] pos = "do_until" -> <<DoUntil(ExprStmt(Number(0)), c), Return1>>
      [] pos = "ternary" -> <<Return(<<Ternary(c, Number(1), Number(2))>>)>>
      [] pos = "and_left" -> <<Return(<<And(c, True)>>)>>
      [] pos = "and_right" -> <<Return(<<And(True, c)>>)>>
      [] pos = "or_left" -> <<Return(<<Or(c, False)>>)>>
      [] pos = "or_right" -> <<Return(<<Or(False, c)>>)>>

CondPrograms == {CondProgram(pos, c) : pos \in CondPositions, c \in Literals}

\* `return a ^^ b;` and `var y = false; return a ^^ (y = true);`
XorProgram(a, b) == <<Return(<<Binary("Xor", a, b)>>)>>
XorAssignProgram(a) ==
    <<Var1("y", False), Return(<<Binary("Xor", a, Equal(IdY, True))>>)>>

XorPrograms ==
    {XorProgram(a, b) : a \in Literals, b \in Literals}
    \cup {XorAssignProgram(a) : a \in {True, False}}

\* `var x = 0; do x = x + 1; until (c); return x;`
DoUntilProgram(c) ==
    <<Var1("x", Number(0)),
      DoUntil(ExprStmt(Equal(IdX, Binary("Addition", IdX, Number(1)))), c),
      Return(<<IdX>>)>>

UntilConds ==
    {Binary("GreaterEqual", IdX, Number(3)), Binary("EqualEqual", IdX, Number(1)),
     Binary("Subtraction", IdX, Number(1)), IdX} \cup Literals

DoUntilPrograms == {DoUntilProgram(c) : c \in UntilConds}

\* `var x = 2; var y = 0; repeat (n) S  return y;`
RepeatProgram(n, S) ==
    <<Var1("x", Number(2)), Var1("y", Number(0)), Repeat(n, S), Return(<<IdY>>)>>

CountY == ExprStmt(Equal(IdY, Binary("Addition", IdY, Number(1))))

RepeatCounts ==
    {Number(0), Number(1), Number(3), IdX,
     Binary("Subtraction", Number(0), Number(1)),
     Binary("Subtraction", IdX, Number(3)),
     Binary("Addition", IdX, Number(1))}

\* Bodies that count a run in y; the last two assign to the x of the count.
RepeatBodies ==
    {CountY,
     Block(<<CountY, ExprStmt(Equal(IdX, Binary("Addition", IdX, Number(1))))>>),
     Block(<<ExprStmt(Equal(IdX, Number(0))), CountY>>)}

RepeatPrograms == {RepeatProgram(n, S) : n \in RepeatCounts, S \in RepeatBodies}

\* `var x = init; e; return x;`
StoreProgram(init, e) == <<Var1("x", init), ExprStmt(e), Return(<<IdX>>)>>

StoreInits == {Number(1), True}

\* Assignment, compound assignment and ++/-- on x.
StoreExprs ==
    {Equal(IdX, v) : v \in {Number(0), True, False}}
    \cup {Binary("PlusEqual", IdX, Number(1))}
    \cup {Unary(t, IdX) : t \in IncDec}

StorePrograms == {StoreProgram(init, e) : init \in StoreInits, e \in StoreExprs}

\* `top function f(args) { body } return f(5, ...);`
LocalsProgram(top, args, body) ==
    top \o <<FuncDef("f", args, body),
             Return(<<Call("f", [k \in 1..Len(args) |-> Number(5)])>>)>>

LocalsTops == {<<>>, <<Var1("x", Number(1))>>, <<Var1("y", Number(1))>>}

LocalsArgs == {<<>>, <<"x">>, <<"y">>}

\* Function bodies that read or assign x, the second after declaring it.
LocalsBodies ==
    {<<Return(<<IdX>>)>>,
     <<Var1("x", Number(2)), Return(<<IdX>>)>>,
     <<ExprStmt(Equal(IdX, Number(3))), Return(<<Number(0)>>)>>}

LocalsPrograms ==
    {LocalsProgram(top, args, body) :
        top \in LocalsTops, args \in LocalsArgs, body \in LocalsBodies}

\* `function f(x) { return x; }`
DefF == FuncDef("f", <<"x">>, <<Return(<<IdX>>)>>)

\* `function f(x) { if (x <= 0) return 7; return f(x - 1); }`
RecF ==
    FuncDef("f", <<"x">>,
            <<If(Binary("LessEqual", IdX, Number(0)), Return(<<Number(7)>>)),
              Return(<<Call("f", <<Binary("Subtraction", IdX, Number(1))>>)>>)>>)

CallDefs == {DefF, RecF}

\* `function g() { return f(1); }`
GCallsF == FuncDef("g", <<>>, <<Return(<<Call("f", <<Number(1)>>)>>)>>)

\* The items that call f: `f(1);`, `f(y = 1);` and the definition of g.
CallUsers ==
    {ExprStmt(Call("f", <<Number(1)>>)),
     ExprStmt(Call("f", <<Equal(IdY, Number(1))>>)),
     GCallsF}

\* What the program ends with: `return g();` after g, else `return y;`.
CallEnd(u) == IF u = GCallsF THEN Return(<<Call("g", <<>>)>>) ELSE Return(<<IdY>>)

\* `var y = 0;`, the definition of f and the use in either order, the end.
CallProgram(d, u, defined_first) ==
    <<Var1("y", Number(0))>>
    \o (IF defined_first THEN <<d, u>> ELSE <<u, d>>)
    \o <<CallEnd(u)>>

CallPrograms ==
    {CallProgram(d, u, b) : d \in CallDefs, u \in CallUsers, b \in BOOLEAN}

\* `var x = 1; { inner } return x;`
ShadowProgram(inner) == <<Var1("x", Number(1)), Block(inner), Return(<<IdX>>)>>

AddToX == ExprStmt(Equal(IdX, Binary("Addition", IdX, Number(5))))

\* Blocks that declare an inner x, with and without an assignment to it, and
\* blocks that declare none.
ShadowInners ==
    {<<Var1("x", Number(2)), AddToX>>,
     <<Var1("x", Number(2))>>,
     <<Var1("y", Number(2)), AddToX>>,
     <<AddToX>>}

ShadowPrograms == {ShadowProgram(inner) : inner \in ShadowInners}

Programs ==
    CondPrograms \cup XorPrograms \cup DoUntilPrograms \cup RepeatPrograms
    \cup StorePrograms \cup LocalsPrograms \cup CallPrograms \cup ShadowPrograms

VisitProgram(items) ==
    /\ phase = "new"
    /\ LET r == visit_program(gen, items)
       IN  /\ gen' = r.g
           /\ phase' = IF Failed(r) THEN "failed" ELSE "lowered"
           /\ host' = IF Failed(r)
                      THEN Returned(host, "ErrorCompilation", "IR generation failed")
                      ELSE host
    /\ program' = items
    /\ UNCHANGED <<binop, globals, text, scope, last_value, entry, machine, meant, source,
                   parsed>>

NextProgram ==
    \/ \E items \in Programs : VisitProgram(items)
    \/ Verify
    \/ ExecuteMain

SpecProgram == Init /\ [][NextProgram]_vars

(***************************************************************************)
(* The host's calls of col_set_global_variable and                         *)
(* col_get_global_variable on one script handle; a call with a null        *)
(* pointer among its arguments returns ErrorInvalidParameter at once       *)
(***************************************************************************)
MaxCalls == 3

SetGlobal(name, value, valid) ==
    /\ Len(globals.calls) < MaxCalls
    /\ globals' =
           IF valid
           THEN [globals EXCEPT
                    !.global_variables = col_set_global_variable(@, name, value),
                    !.calls = Append(@, [name |-> name, value |-> value])]
           ELSE [globals EXCEPT !.calls = Append(@, [name |-> "", value |-> Absent])]
    /\ UNCHANGED <<gen, phase, program, last_value, entry, machine, meant, source,
                   parsed, scope, host, text, binop>>

GetGlobal(name, out, valid) ==
    /\ globals' =
           [globals EXCEPT !.read =
               IF valid
               THEN [name |-> name, code |-> "Success",
                     out |-> col_get_global_variable(globals.global_variables,
                                                     name, out)]
               ELSE [name |-> name, code |-> "ErrorInvalidParameter", out |-> out]]
    /\ UNCHANGED <<gen, phase, program, last_value, entry, machine, meant, source,
                   parsed, scope, host, text, binop>>

NextGlobals ==
    \/ \E name \in GlobalNames : \E value \in Variants : \E valid \in BOOLEAN :
           SetGlobal(name, value, valid)
    \/ \E name \in GlobalNames : \E out \in OutVariants : \E valid \in BOOLEAN :
           GetGlobal(name, out, valid)

SpecGlobals == Init /\ [][NextGlobals]_vars

(***************************************************************************)
(* Properties of the lowered module                                        *)
(***************************************************************************)

\* visit_program has returned Ok.
Lowered == phase \in {"lowered", "invalid", "verified", "executed"}

IsFuncDef(item) == "body" \in DOMAIN item

Blocks(f) == 1..Len(gen.fns[f].blocks)
Insts(f, b) == 1..Len(gen.fns[f].blocks[b].insts)

\* C1: in the module of every program that lowers without error, every basic
\* block of every function, main included, holds exactly one terminator, and
\* it is the block's last instruction.
C1_EveryBlockHasOneTerminator ==
    Lowered =>
        \A f \in 1..Len(gen.fns) : \A b \in Blocks(f) :
            BlockTerminated(gen.fns[f].blocks[b])

\* Every operand of every instruction of fn is dominated by its definition;
\* a phi's operands at the end of their incoming blocks.
OperandsDominated(fn) ==
    LET reach == ReachableBlocks(fn)
        sites == DefSites(fn)
    IN  \A b \in 1..Len(fn.blocks) : \A i \in 1..Len(fn.blocks[b].insts) :
            LET x == fn.blocks[b].insts[i]
            IN  IF x.op = "phi"
                THEN /\ PhiUseDominated(fn, reach, sites, x.a, x.t1)
                     /\ PhiUseDominated(fn, reach, sites, x.b, x.t2)
                ELSE \A v \in InstOperands(x) :
                         UseDominated(fn, reach, sites, v, b, i)

\* C2: in the module of every program that lowers without error, each use of
\* an SSA value is dominated by the value's definition, the value a ternary
\* yields after its merge block and the variables' stack slots included.
C2_EveryUseIsDominated ==
    Lowered => \A f \in 1..Len(gen.fns) : OperandsDominated(gen.fns[f])

\* C3: every return instruction that lowering emits, for `return e`, for a
\* bare `return` and for the implicit return at the end of a body, returns a
\* value of type f64.
C3_EveryReturnIsF64 ==
    Lowered =>
        \A f \in 1..Len(gen.fns) : \A b \in Blocks(f) : \A i \in Insts(f, b) :
            LET x == gen.fns[f].blocks[b].insts[i]
            IN  x.op = "ret" => x.a.ty = "f64"

\* `var x = v; while (x) break;`, alone or followed by `return;`.
BreakPrograms ==
    UNION {{<<Var1("x", v), While(IdX, Break)>>,
            <<Var1("x", v), While(IdX, Break), Return(<<>>)>>} : v \in Literals}

EnteredMain == phase = "executed" /\ gen.fns[entry.f].name = "main"

\* C4: a break in a loop body transfers control to the loop's exit block, so
\* execution goes on with what follows the loop: main of
\* `var x = v; while (x) break;` runs to its return, which yields 0.
C4_BreakGoesOnAfterTheLoop ==
    (EnteredMain /\ program \in BreakPrograms) =>
        machine.status = "done" /\ machine.ret = 0

\* The boolean coercion of a literal: a number is true unless it is 0, a
\* string is a non-null pointer.
Truthy(v) ==
    CASE v.e = "Number" -> v.n # 0
      [] v.e = "True" -> TRUE
      [] v.e = "String" -> TRUE
      [] OTHER -> FALSE

\* `var x = v; var y = 0; return x op (y = n);`
ShortCircuitProgram(v, op, n) ==
    <<Var1("x", v), Var1("y", Number(0)), Return(<<Binary(op, IdX, SetY(n))>>)>>

\* The right operand ran: after the two initialising stores, n was stored
\* into y's slot.
RightOperandRan(n) ==
    Len(machine.trace) = 3 /\ machine.trace[3] = [slot |-> 2, n |-> n]

RightOperandSkipped == Len(machine.trace) = 2

\* C5: in `a && b` the operand b is evaluated, side effects included, exactly
\* when a coerces to true, and in `a || b` exactly when a coerces to false;
\* when b is skipped the result is false for && and true for ||, otherwise it
\* is b coerced to a boolean.
C5_ShortCircuit ==
    \A v \in Literals : \A op \in {"And", "Or"} : \A n \in {0, 1} :
        program = ShortCircuitProgram(v, op, n) =>
            /\ phase \notin {"failed", "invalid"}
            /\ EnteredMain =>
                   /\ machine.status = "done"
                   /\ IF (op = "And") = Truthy(v)
                      THEN RightOperandRan(n) /\ machine.ret = n
                      ELSE /\ RightOperandSkipped
                           /\ machine.ret = (IF op = "And" THEN 0 ELSE 1)

\* `var x = true; var y = 0; return x && (y = 0);` was run: y = 0 was
\* executed and its value, false, is the result.
C5_RightOperandEvaluated ==
    /\ EnteredMain
    /\ program = ShortCircuitProgram(True, "And", 0)
    /\ RightOperandRan(0)
    /\ machine.ret = 0

NoExplicitReturn ==
    \A k \in 1..Len(program) : IsFuncDef(program[k]) \/ program[k].s # "Return"

\* C6: main takes no parameters, and when control reaches the end of the
\* top-level statements without an explicit return, main returns 0 whatever
\* the statements computed.
C6_MainReturnsZero ==
    /\ Lowered => gen.fns[1].name = "main" /\ gen.fns[1].np = 0
    /\ (EnteredMain /\ NoExplicitReturn /\ machine.status = "done") =>
           machine.ret = 0

\* bb's instructions are still there, in order, at the head of bb2.
Extends(bb2, bb) ==
    /\ Len(bb2.insts) >= Len(bb.insts)
    /\ SubSeq(bb2.insts, 1, Len(bb.insts)) = bb.insts

\* A turn of visit_program's loop that returned Ok.
ItemLowered ==
    phase = "lowering" /\ phase' = "lowering" /\ Len(program') = Len(program) + 1

ParsedAsMeant == parsed.ok /\ parsed.v = <<ExprStmt(meant)>>

\* C8: for identifiers a and b and any expression e, `a = b = e;` parses
\* without error to Equal(a, Equal(b, e)).
C8_ChainedAssignmentParses ==
    \A e \in Operands :
        (phase = "parsed" /\ meant = Equal(IdA, Equal(IdB, e))) => ParsedAsMeant

\* C9: `c1 ? e1 : c2 ? e2 : e3` parses without error to
\* Ternary(c1, e1, Ternary(c2, e2, e3)).
C9_NestedTernaryParses ==
    \A c1 \in Simple : \A e1 \in Simple : \A c2 \in Simple : \A e2 \in Simple :
        \A e3 \in Operands :
            (phase = "parsed" /\ meant = Ternary(c1, e1, Ternary(c2, e2, e3)))
                => ParsedAsMeant

RECURSIVE AssignTargetsAreIdentifiers(_)
\* Every assignment node of expression e has an Identifier as left child.
AssignTargetsAreIdentifiers(e) ==
    /\ e.e \in AssignTokens => e.args[1].e = "Identifier"
    /\ \A k \in 1..Len(e.args) : AssignTargetsAreIdentifiers(e.args[k])

\* C10: an assignment or compound assignment whose left-hand side is not a
\* bare identifier is rejected with a parse error, so every assignment node
\* of a Program the parser returns has an Identifier as its left child.
C10_AssignmentTargetIsIdentifier ==
    phase = "parsed" =>
        /\ (meant.e \in AssignTokens /\ meant.args[1].e # "Identifier")
               => ~parsed.ok
        /\ parsed.ok =>
               \A k \in 1..Len(parsed.v) :
                   AssignTargetsAreIdentifiers(parsed.v[k].e[1])

RECURSIVE IncDecOnNonIdentifier(_)
\* Some ++ or -- of expression e has an operand that is no bare identifier.
IncDecOnNonIdentifier(e) ==
    \/ e.e \in IncDec /\ e.args[1].e # "Identifier"
    \/ \E k \in 1..Len(e.args) : IncDecOnNonIdentifier(e.args[k])

\* C11: prefix and postfix ++ and -- are accepted only on a bare identifier:
\* written on a literal, a call, a parenthesised or another unary expression,
\* the parse fails and no Program is returned; written on an identifier, as a
\* statement or as the right side of an assignment, they parse as written.
C11_IncDecOnlyOnIdentifier ==
    phase = "parsed" =>
        /\ IncDecOnNonIdentifier(meant) => ~parsed.ok
        /\ \A t \in IncDec :
               meant \in {Unary(t, IdA), Equal(IdB, Unary(t, IdA))} => ParsedAsMeant

\* `b = ++1;` was parsed, and rejected.
C11_PrefixOnLiteralRejected ==
    /\ phase = "parsed"
    /\ meant = Equal(IdB, Unary("PreIncrement", Number(1)))
    /\ ~parsed.ok

\* C13: for binary operators the parser builds the tree the precedence table
\* implies: of two adjacent operators the one at the higher level binds
\* tighter, operators of one level associate to the left, and
\* `a || b && c ^^ d` has Or at the root.
C13_PrecedenceAndAssociativity ==
    (phase = "parsed" /\ meant \in PrecedenceSources) => ParsedAsMeant

\* `a - b - 1;` was parsed to Subtraction(Subtraction(a, b), 1).
C13_SubtractionAssociatesLeft ==
    /\ phase = "parsed"
    /\ meant = TreeOf("Subtraction", "Subtraction")
    /\ parsed.ok
    /\ parsed.v = <<ExprStmt(Binary("Subtraction",
                                     Binary("Subtraction", IdA, IdB), Number(1)))>>

\* C12: a for statement parses for each of the eight combinations of present
\* or absent init, cond and update clauses, `for (;;) S` included, and yields
\* Stmt::For with None for exactly the absent clauses.
C12_ForClausesAreOptional ==
    (phase = "parsed" /\ meant \in ForSources) =>
        parsed.ok /\ parsed.v = <<meant>>

\* `var x = n; return ++x;` and its three siblings.
IncDecProgram(n, tag) == <<Var1("x", Number(n)), Return(<<Unary(tag, IdX)>>)>>

\* C14: for a declared numeric variable x, ++x and x++ store x+1 into x, --x
\* and x-- store x-1; the prefix forms yield the new value and the postfix
\* forms the value x had before.
C14_IncDecStoresAndYields ==
    \A n \in {0, 1} : \A tag \in IncDec :
        program = IncDecProgram(n, tag) =>
            LET new == IF tag \in {"PreIncrement", "PostIncrement"}
                       THEN n + 1 ELSE n - 1
            IN  /\ phase \notin {"failed", "invalid"}
                /\ EnteredMain =>
                       /\ machine.status = "done"
                       /\ machine.trace = <<[slot |-> 1, n |-> n],
                                            [slot |-> 1, n |-> new]>>
                       /\ machine.ret = (IF tag \in {"PreIncrement", "PreDecrement"}
                                         THEN new ELSE n)

\* `var x = 1; return x++;` was run: 2 was stored into x and 1 returned.
C14_PostIncrementYieldsOldValue ==
    /\ EnteredMain
    /\ program = IncDecProgram(1, "PostIncrement")
    /\ machine.trace = <<[slot |-> 1, n |-> 1], [slot |-> 1, n |-> 2]>>
    /\ machine.ret = 1

(***************************************************************************)
(* Properties of the scope tree                                            *)
(***************************************************************************)

\* A stretch of the AST that has a scope of its own: the parameters declared
\* in it and the items that stand directly in it.
Region(params, body) == [params |-> params, body |-> body]

\* The regions one item opens, in source order.
OpenedBy(item) ==
    IF IsFuncDef(item) THEN <<Region(item.args, item.body)>>
    ELSE CASE item.s \in {"Block", "While", "Repeat", "DoUntil"} ->
                <<Region(<<>>, item.ss)>>
           [] item.s = "For" ->
                <<Region(<<>>, item.init \o item.update \o item.ss)>>
           [] item.s = "If" ->
                [i \in 1..Len(item.ss) |-> Region(<<>>, <<item.ss[i]>>)]
           [] OTHER -> <<>>

RECURSIVE RegionsOf(_, _)
RegionsOf(items, i) ==
    IF i > Len(items) THEN <<>>
    ELSE OpenedBy(items[i]) \o RegionsOf(items, i + 1)

RECURSIVE Mirrors(_, _)
Mirrors(sc, region) ==
    LET opened == RegionsOf(region.body, 1)
    IN  /\ Len(sc.children) = Len(opened)
        /\ \A i \in 1..Len(opened) : Mirrors(sc.children[i], opened[i])

Analyzed == phase = "analyzing"
LastScope == scope.children[Len(scope.children)]
LastItem == program[Len(program)]
BlockBodied ==
    {While(ScopeCond, DeclBlock), Repeat(Number(2), DeclBlock),
     DoUntil(DeclBlock, ScopeCond), For(<<>>, <<>>, <<>>, DeclBlock),
     If(ScopeCond, DeclBlock)}
DeclBlockScope ==
    [table |-> {Entry("x", Variable), Entry("y", Variable)}, children |-> <<>>]

\* C15: the scope tree has, under every scope and in source order, one child
\* for each brace block, while, repeat, do-until, for, if-branch and function
\* body that stands directly in it and none for any other statement; a brace
\* block that is the body of a loop or of an if-branch is the only child of
\* the construct's scope, and its declarations are in that inner scope.
C15_ScopeTreeMirrorsAst ==
    Analyzed =>
        /\ Mirrors(scope, Region(<<>>, program))
        /\ LastItem \in BlockBodied =>
               LastScope = [table |-> {}, children |-> <<DeclBlockScope>>]

\* The nesting of test_complex_mixed_nesting was analysed: two scopes for the
\* if, and in the then-branch a block, a for and the for's body block.
C15_MixedNestingAnalyzed ==
    /\ Analyzed
    /\ program = <<MixedNesting>>
    /\ Len(scope.children) = 2
    /\ Len(scope.children[1].children[1].children[1].children) = 1
    /\ scope.children[2].children[1].table = {Entry("y", Variable)}

VarEntries(vs) == [k \in 1..Len(vs) |-> Entry(vs[k].name, Variable)]

\* The declarations that stand directly in a list of items, in source order.
RECURSIVE DeclsOf(_, _)
DeclsOf(items, i) ==
    IF i > Len(items) THEN <<>>
    ELSE (IF IsFuncDef(items[i])
          THEN <<Entry(items[i].name, Function(items[i].args))>>
          ELSE IF items[i].s = "Var" THEN VarEntries(items[i].vars)
          ELSE <<>>) \o DeclsOf(items, i + 1)

DeclsIn(region) ==
    [k \in 1..Len(region.params) |-> Entry(region.params[k], Variable)]
    \o DeclsOf(region.body, 1)

RECURSIVE TablesHoldDeclarations(_, _)
TablesHoldDeclarations(sc, region) ==
    LET opened == RegionsOf(region.body, 1)
        decls == DeclsIn(region)
    IN  /\ {e.name : e \in sc.table} = {decls[k].name : k \in 1..Len(decls)}
        /\ sc.table \subseteq {decls[k] : k \in 1..Len(decls)}
        /\ Len(sc.children) = Len(opened)
        /\ \A i \in 1..Len(opened) :
               TablesHoldDeclarations(sc.children[i], opened[i])

\* C16: the table of each scope holds exactly the names declared directly in
\* it: var names as Variable, function names as Function with their
\* parameters, a function's parameters as Variable in its body scope; uses of
\* identifiers, assignment targets and call targets add nothing, and the
\* builder ends on every AST.
C16_TablesHoldExactlyTheDeclarations ==
    Analyzed => TablesHoldDeclarations(scope, Region(<<>>, program))

\* f(x) { var y = a; while (..) { .. } } and a = f(b); were analysed: the root
\* holds f alone, and the body scope of f holds x and y.
C16_UsesRecordNothing ==
    /\ Analyzed
    /\ program = <<FuncDef("f", <<"x">>, <<DeclY, While(ScopeCond, DeclBlock)>>),
                   UseStmt>>
    /\ scope.table = {Entry("f", Function(<<"x">>))}
    /\ scope.children[1].table = {Entry("x", Variable), Entry("y", Variable)}

\* The entry of the declaration of each name that comes last.
LastDeclared(decls) ==
    {decls[k] : k \in {j \in 1..Len(decls) :
                          \A l \in (j + 1)..Len(decls) : decls[l].name # decls[j].name}}

Redeclares(decls) ==
    \E j, l \in 1..Len(decls) : j < l /\ decls[j].name = decls[l].name

RECURSIVE LastDeclarationWins(_, _)
LastDeclarationWins(sc, region) ==
    LET opened == RegionsOf(region.body, 1)
        decls == DeclsIn(region)
    IN  /\ Redeclares(decls) => sc.table = LastDeclared(decls)
        /\ \A i \in 1..Len(opened) :
               i <= Len(sc.children) =>
                   LastDeclarationWins(sc.children[i], opened[i])

\* C17: when a name is declared more than once in a scope, the table of the
\* scope is built and holds one entry for the name, the symbol of the
\* declaration that comes last in source order.
C17_LastDeclarationWins ==
    Analyzed => LastDeclarationWins(scope, Region(<<>>, program))

\* function f(x) { .. } and then var f; were analysed: f is a Variable.
C17_VarAfterFunction ==
    /\ Analyzed
    /\ program = <<FuncDef("f", <<"x">>, <<DeclY, While(ScopeCond, DeclBlock)>>),
                   DeclF>>
    /\ scope.table = {Entry("f", Variable)}

(***************************************************************************)
(* Properties of the host pipeline                                         *)
(***************************************************************************)
CompilationFailed == phase \in {"failed", "invalid"}

\* Nothing was run, and the host was told so.
NothingExecuted ==
    /\ machine = Idle
    /\ entry = NoEntry
    /\ host.code = "ErrorCompilation"
    /\ host.last_error # "None"
    /\ host.result = "unwritten"

\* C18: lowering, verification and execution run in that order and nothing
\* runs after a failure: once lowering has returned an error or verification
\* has failed, no function is ever executed, and col_call_function has
\* returned ErrorCompilation with last_error set and the result unwritten.
C18_NothingRunsAfterAFailure ==
    [][/\ phase' = "lowered" => phase \in {"lowering", "lowered"}
       /\ phase' \in {"verified", "invalid"} =>
              phase \in {"lowered", "verified", "invalid"}
       /\ phase' \in {"executed", "no_function"} =>
              phase \in {"verified", "executed", "no_function"}
       /\ machine' # Idle => phase' = "executed" /\ host'.code = "Success"
       /\ CompilationFailed => UNCHANGED vars
       /\ CompilationFailed' => NothingExecuted']_vars

\* Lowering ended in UndefinedVariable and the host got ErrorCompilation.
C18_LoweringFailed ==
    /\ phase = "failed"
    /\ gen.err = "UndefinedVariable"
    /\ NothingExecuted

(***************************************************************************)
(* Properties of arithmetic on booleans                                    *)
(***************************************************************************)

\* The number an operand counts as.
NumberOf(v) == IF v = True THEN 1 ELSE IF v = False THEN 0 ELSE v.n

\* The f64 operation on two numbers.
FloatResult(tag, a, b) == EvalOp(FloatOpName(BinaryOpOf(tag)), "f64", a, b, 0)

\* main ran to its end and returned n.
MainReturned(n) ==
    /\ phase \notin {"failed", "invalid"}
    /\ EnteredMain => machine.status = "done" /\ machine.ret = n

RECURSIVE FirstClose(_, _)
FirstClose(t, k) ==
    IF k >= Len(t) THEN 0
    ELSE IF t[k] = "*" /\ t[k + 1] = "/" THEN k + 2
    ELSE FirstClose(t, k + 1)

\* The text with each comment replaced by a space: a line comment runs from
\* // up to the next newline, a block comment from /* to the first following
\* */.
RECURSIVE WithoutComments(_, _)
WithoutComments(t, i) ==
    IF i > Len(t) THEN <<>>
    ELSE IF t[i] = "/" /\ i < Len(t) /\ t[i + 1] = "/"
    THEN <<" ">> \o WithoutComments(t, LineCommentEnd(t, i))
    ELSE IF t[i] = "/" /\ i < Len(t) /\ t[i + 1] = "*" /\ FirstClose(t, i + 2) # 0
    THEN <<" ">> \o WithoutComments(t, FirstClose(t, i + 2))
    ELSE <<t[i]>> \o WithoutComments(t, i + 1)

\* C20: comments produce no tokens: the tokens of a text are the tokens of
\* the text with each line comment (up to, not including, the newline) and
\* each block comment (up to the first following */, whatever it contains)
\* replaced by a space.
C20_CommentsProduceNoTokens ==
    phase = "tokenized" => source = lexer(WithoutComments(text, 1), 1)

(***************************************************************************)
(* Properties of the global variables                                      *)
(***************************************************************************)

\* The indices of the set calls that stored under the name.
StoresOf(name) == {k \in 1..Len(globals.calls) : globals.calls[k].name = name}

Max(S) == CHOOSE m \in S : \A k \in S : k <= m

\* C21: on a valid handle col_get_global_variable returns Success and yields
\* the variant stored last under the name, with type tag 3 for a name never
\* set; a set under one name does not change what is read under another.
C21_GetYieldsLastSet ==
    [][/\ \A name \in GlobalNames :
              (/\ globals'.calls = globals.calls
               /\ globals'.read.name = name
               /\ globals'.read.code = "Success") =>
                  IF StoresOf(name)' = {}
                  THEN globals'.read.out.value_type = 3
                  ELSE globals'.read.out = globals'.calls[Max(StoresOf(name)')].value
       /\ \A name \in GlobalNames : \A out \in OutVariants :
              StoresOf(name)' = StoresOf(name) =>
                  col_get_global_variable(globals'.global_variables, name, out)
                      = col_get_global_variable(globals.global_variables, name, out)]_vars

\* a was set to the number 1 and then to the boolean 1, b never, and a read
\* of a got the boolean 1.
C21_ReadAfterTwoSets ==
    /\ globals.calls = <<[name |-> "a", value |-> COLVariant(0, 1)],
                         [name |-> "a", value |-> COLVariant(1, 1)]>>
    /\ globals.read = [name |-> "a", code |-> "Success", out |-> COLVariant(1, 1)]

(***************************************************************************)
(* Properties of the coercion of conditions                                *)
(***************************************************************************)

\* What main hands back when the condition of the position counts as true,
\* and when it counts as false.
WhenTrue(pos) == IF pos \in {"or_left", "or_right", "and_left", "and_right"} THEN 1 ELSE 1
WhenFalse(pos) == IF pos \in {"or_left", "or_right", "and_left", "and_right"} THEN 0 ELSE 2

\* main ran as the coercion of c to the boolean b in that position makes it
\* run; a do-until whose condition is false does not end.
RanAsCoerced(pos, b) ==
    IF b THEN machine.status = "done" /\ machine.ret = WhenTrue(pos)
    ELSE IF pos = "do_until" THEN machine.status # "done"
    ELSE machine.status = "done" /\ machine.ret = WhenFalse(pos)

\* C22: in every position that needs a boolean (if, while, do-until, for,
\* ternary, the operands of && and ||) the same coercion applies: an i1 as
\* is, an f64 true iff not 0.0, a pointer true iff not null; none of these
\* is rejected.
C22_OneCoercionInEveryCondition ==
    \A pos \in CondPositions : \A c \in Literals :
        program = CondProgram(pos, c) =>
            /\ phase \notin {"failed", "invalid"}
            /\ EnteredMain => RanAsCoerced(pos, Truthy(c))

\* C23: a ^^ b evaluates both operands, coerces each to a boolean as a
\* condition is coerced, and is true exactly when one of the two is; it is
\* lowered without error for operands of every type a condition accepts.
C23_XorOfCoercedOperands ==
    /\ \A a, b \in Literals :
           program = XorProgram(a, b) =>
               /\ phase \notin {"failed", "invalid"}
               /\ EnteredMain =>
                      /\ machine.status = "done"
                      /\ machine.ret = BoolInt(Truthy(a) # Truthy(b))
    /\ \A a \in {True, False} :
           program = XorAssignProgram(a) =>
               /\ phase \notin {"failed", "invalid"}
               /\ EnteredMain =>
                      /\ machine.status = "done"
                      /\ machine.trace = <<[slot |-> 1, n |-> 0], [slot |-> 1, n |-> 1]>>
                      /\ machine.ret = BoolInt(~Truthy(a))

(***************************************************************************)
(* Properties of gen_binary_op                                             *)
(***************************************************************************)

\* The result type tabulated for an operator and two operand types, or
\* "TypeMismatch".
TabulatedType(op, lt, rt) ==
    CASE lt = "ptr" \/ rt = "ptr" -> "TypeMismatch"
      [] lt = "f64" \/ rt = "f64" -> IF op \in Comparison THEN "i1" ELSE "f64"
      [] lt = rt -> IF op \in Comparison THEN "i1" ELSE lt
      [] OTHER -> "TypeMismatch"

\* C24: the result type of an arithmetic, comparison or bitwise operator is
\* the tabulated function of the operand types: f64 with f64 gives f64 (i1
\* for a comparison), two integers of one type give that type (i1 for a
\* comparison), an integer with an f64 is handled as f64 with f64, and every
\* other pair is rejected with TypeMismatch.
C24_ResultTypeIsTabulated ==
    binop.op \in Arithmetic \cup Comparison \cup Bitwise =>
        LET ty == TabulatedType(binop.op, binop.lhs.ty, binop.rhs.ty)
        IN  IF ty = "TypeMismatch" THEN binop.err = "TypeMismatch"
            ELSE binop.err = "ok" /\ binop.result.ty = ty

(***************************************************************************)
(* Properties of the loops                                                 *)
(***************************************************************************)

\* The coercion of the condition c when x is k.
HoldsAt(c, k) ==
    CASE c = Binary("GreaterEqual", IdX, Number(3)) -> k >= 3
      [] c = Binary("EqualEqual", IdX, Number(1)) -> k = 1
      [] c = Binary("Subtraction", IdX, Number(1)) -> k - 1 # 0
      [] c = IdX -> k # 0
      [] OTHER -> Truthy(c)

\* The stores into x of k runs of the body after the declaration.
Counted(k) == [j \in 1..(k + 1) |-> [slot |-> 1, n |-> j - 1]]

\* C25: do S until (c) runs S once, evaluates c after each run of S and
\* runs S again iff c coerces to false; the loop is left the first time c
\* coerces to true.
C25_DoUntilRunsUntilTrue ==
    \A c \in UntilConds :
        program = DoUntilProgram(c) =>
            /\ phase \notin {"failed", "invalid"}
            /\ EnteredMain =>
                   IF \E k \in 1..3 : HoldsAt(c, k)
                   THEN \E k \in 1..3 :
                            /\ HoldsAt(c, k)
                            /\ \A j \in 1..(k - 1) : ~HoldsAt(c, j)
                            /\ machine.status = "done"
                            /\ machine.ret = k
                            /\ machine.trace = Counted(k)
                   ELSE /\ machine.status = "run"
                        /\ Len(machine.trace) > 3
                        /\ machine.trace = Counted(Len(machine.trace) - 1)

\* The value of the count n where x is 2, as when the loop is reached.
CountOf(n) ==
    CASE n = IdX -> 2
      [] n = Binary("Subtraction", Number(0), Number(1)) -> 0 - 1
      [] n = Binary("Subtraction", IdX, Number(3)) -> 0 - 1
      [] n = Binary("Addition", IdX, Number(1)) -> 3
      [] OTHER -> n.n

StoresInto(slot) == SelectSeq(machine.trace, LAMBDA w : w.slot = slot)

\* C26: repeat (n) S runs S exactly n times for a whole n >= 0 and not at
\* all for n <= 0; the count is evaluated once, so assignments in S to the
\* variables of n do not change the number of runs.
C26_RepeatRunsCountTimes ==
    \A n \in RepeatCounts, S \in RepeatBodies :
        program = RepeatProgram(n, S) =>
            /\ phase \notin {"failed", "invalid"}
            /\ EnteredMain =>
                   LET k == IF CountOf(n) > 0 THEN CountOf(n) ELSE 0
                   IN  /\ machine.status = "done"
                       /\ machine.ret = k
                       /\ StoresInto(2) = [j \in 1..(k + 1) |-> [slot |-> 2, n |-> j - 1]]

\* A count read from x has run a body that assigns to x.
C26_CountVariableAssignedInBody ==
    /\ EnteredMain
    /\ program = RepeatProgram(IdX, Block(<<ExprStmt(Equal(IdX, Number(0))), CountY>>))
    /\ machine.ret = 2

(***************************************************************************)
(* Properties of the variables                                             *)
(***************************************************************************)

\* The instructions of function f, block by block.
RECURSIVE InstsFrom(_, _)
InstsFrom(blocks, b) ==
    IF b > Len(blocks) THEN <<>> ELSE blocks[b].insts \o InstsFrom(blocks, b + 1)

InstsOf(f) == InstsFrom(gen.fns[f].blocks, 1)

Range(s) == {s[k] : k \in 1..Len(s)}

\* Every store into, and every load from, a slot of f has the slot's type.
SlotsTyped(f) ==
    \A slot \in Range(InstsOf(f)) :
        slot.op = "alloca" =>
            \A x \in Range(InstsOf(f)) :
                /\ (x.op = "store" /\ x.b = Reg(slot.id, "ptr")) => x.a.ty = slot.ty
                /\ (x.op = "load" /\ x.a = Reg(slot.id, "ptr")) => x.ty = slot.ty

\* C27: a variable's slot has the type recorded for its name at the
\* declaration, every value stored into it by assignment, compound
\* assignment or ++/-- has that type, and so a load reads a value of the
\* type it specifies.
C27_SlotsKeepTheirType ==
    \A init \in StoreInits, e \in StoreExprs :
        (program = StoreProgram(init, e) /\ phase \in {"lowered", "verified", "executed"}) =>
            /\ \A f \in 1..Len(gen.fns) : SlotsTyped(f)
            /\ gen.variable_types["x"] = (IF init = True THEN "i1" ELSE "f64")
            /\ phase = "executed" => machine.status = "done"

\* The slots allocated in function f.
SlotsOf(f) == {Reg(x.id, "ptr") : x \in {i \in Range(InstsOf(f)) : i.op = "alloca"}}

\* The pointers that the loads and stores of function f go through.
PointersOf(f) ==
    {x.a : x \in {i \in Range(InstsOf(f)) : i.op = "load"}}
    \cup {x.b : x \in {i \in Range(InstsOf(f)) : i.op = "store"}}

\* x is a parameter or an own declaration of the function.
DeclaresX(args, body) == args = <<"x">> \/ body[1].s = "Var"

\* C28: in a function body only the parameters and the function's own
\* declarations are visible: a name declared only at top level is reported
\* as UndefinedVariable, and no instruction of a function refers to a slot
\* allocated in another function.
C28_OnlyOwnNamesVisible ==
    \A top \in LocalsTops, args \in LocalsArgs, body \in LocalsBodies :
        (program = LocalsProgram(top, args, body) /\ phase # "new") =>
            /\ ~DeclaresX(args, body) => (phase = "failed" /\ gen.err = "UndefinedVariable")
            /\ \A f \in 1..Len(gen.fns) : PointersOf(f) \subseteq SlotsOf(f)

(***************************************************************************)
(* Properties of the calls                                                 *)
(***************************************************************************)

\* What main returns when the call of the program resolves.
CallResult(d, u) ==
    IF u = GCallsF THEN (IF d = RecF THEN 7 ELSE 1)
    ELSE IF u = ExprStmt(Call("f", <<Equal(IdY, Number(1))>>)) THEN 1 ELSE 0

\* The instructions emitted so far, in every function.
Emitted == UNION {Range(InstsOf(f)) : f \in 1..Len(gen.fns)}

\* C29: a call f(...) resolves exactly when the definition of f starts
\* earlier in source order than the call, a call in f's own body included;
\* otherwise lowering fails with UndefinedFunction before any argument is
\* lowered and without emitting a call.
C29_CallsResolveAfterDefinition ==
    \A d \in CallDefs, u \in CallUsers, b \in BOOLEAN :
        (program = CallProgram(d, u, b) /\ phase # "new") =>
            IF b
            THEN /\ phase \notin {"failed", "invalid"}
                 /\ phase = "executed" =>
                        /\ machine.status = "done"
                        /\ machine.ret = CallResult(d, u)
            ELSE /\ phase = "failed"
                 /\ gen.err = "UndefinedFunction"
                 /\ \A x \in Emitted : x.op # "call"
                 /\ Cardinality({x \in Emitted : x.op = "store"}) = 1

\* The recursive f has been called through g and has returned.
C29_RecursionResolved ==
    /\ program = CallProgram(RecF, GCallsF, TRUE)
    /\ phase = "executed"
    /\ machine.ret = 7

\* C30: a var x declared in a nested block shadows the outer x only within
\* the block: after the block x denotes the outer variable again, whose
\* value the assignments to the inner x have not changed.
C30_ShadowingEndsWithTheBlock ==
    \A inner \in ShadowInners :
        (program = ShadowProgram(inner) /\ phase # "new") =>
            /\ phase \notin {"failed", "invalid"}
            /\ phase = "executed" =>
                   /\ machine.status = "done"
                   /\ machine.ret = (IF inner[1] = Var1("x", Number(2)) THEN 1 ELSE 6)

====
